---- MODULE Spec2Model ----
(***************************************************************************)
(* pdvzip: the PNG-ZIP polyglot builder of src/src/pdvzip.cpp as a state   *)
(* machine.  A run reads a PNG and a ZIP, validates and prunes the PNG,    *)
(* wraps the ZIP into an IDAT chunk, composes the iCCP extraction script,  *)
(* splices both into the image, patches the ZIP offsets and writes the     *)
(* result.  Buffers are sequences of bytes; the source's 0-based indices   *)
(* are kept through At/Slice.  TLC integers are 32-bit signed, so a 32-bit *)
(* unsigned value (a CRC) is carried as its four bytes, most significant   *)
(* first (a "word").                                                       *)
(***************************************************************************)
EXTENDS Integers, Sequences, FiniteSets, TLC

VARIABLES
    pc,                 \* the function the run is about to enter, or "exit" / "undefined"
    argv,               \* the command-line arguments argv[1], argv[2], ... as byte strings
    status,             \* process exit status once pc = "exit" (0, or 1 for EXIT_FAILURE)
    diag,               \* the diagnostic written to the error stream ("" when none)
    image_file,         \* bytes of the cover image on disk
    zip_file,           \* bytes of the ZIP archive on disk
    Image_Vec,          \* PDV_STRUCT::Image_Vec
    Zip_Vec,            \* PDV_STRUCT::Zip_Vec
    Script_Vec,         \* PDV_STRUCT::Script_Vec
    image_size,         \* PDV_STRUCT::image_size
    zip_size,           \* PDV_STRUCT::zip_size
    script_size,        \* PDV_STRUCT::script_size
    combined_file_size, \* PDV_STRUCT::combined_file_size
    big_endian,         \* PDV_STRUCT::big_endian
    prompted,           \* whether the two argument lines were read from standard input
    args_linux,         \* the POSIX argument line as inserted (with its leading space)
    args_windows,       \* the Windows argument line as inserted (with its leading space)
    out_file,           \* bytes written to the output file (<<>> while none)
    updater_call        \* the call of Value_Updater under study (<<>> in a run of the program)

vars == <<pc, argv, status, diag, image_file, zip_file, Image_Vec, Zip_Vec, Script_Vec,
          image_size, zip_size, script_size, combined_file_size, big_endian,
          prompted, args_linux, args_windows, out_file, updater_call>>

----------------------------------------------------------------------------
(* Bytes and buffers                                                       *)

Byte == 0..255

\* vec[i] of the source (0-based)
At(vec, i) == vec[i + 1]

\* the bytes vec[from], ..., vec[to - 1]: an iterator range [begin + from, begin + to)
Slice(vec, from, to) == SubSeq(vec, from + 1, to)

\* vec.insert(vec.begin() + pos, s.begin(), s.end())
Insert(vec, pos, s) == Slice(vec, 0, pos) \o s \o Slice(vec, pos, Len(vec))

\* whether pat occurs in vec at index i
MatchAt(vec, i, pat) ==
    /\ i >= 0
    /\ i + Len(pat) <= Len(vec)
    /\ \A k \in 1..Len(pat) : vec[i + k] = pat[k]

Min(S) == CHOOSE x \in S : \A y \in S : x <= y

\* std::search(vec.begin() + from, vec.end(), pat.begin(), pat.end()) - vec.begin():
\* the first index >= from where pat occurs, vec.size() when there is none
Search(vec, from, pat) ==
    LET hits == {i \in from..(Len(vec) - Len(pat)) : MatchAt(vec, i, pat)}
    IN  IF hits = {} THEN Len(vec) ELSE Min(hits)

\* the four low-order bytes of a size_t value below 2^31, most significant first
Word(n) == <<(n \div 16777216) % 256, (n \div 65536) % 256, (n \div 256) % 256, n % 256>>

\* (NEW_VALUE >> shift) & 0xff for a word, shift in {0, 8, 16, 24}
WordByte(w, shift) == w[4 - (shift \div 8)]

----------------------------------------------------------------------------
(* Value_Updater                                                           *)

\* Value_Updater stepping the index upwards whatever the flag says
RECURSIVE Value_Updater_Always_Upwards(_, _, _, _, _)
Value_Updater_Always_Upwards(vec, value_insert_index, NEW_VALUE, bits, be) ==
    IF bits = 0 THEN vec
    ELSE LET b == bits - 8
         IN  Value_Updater_Always_Upwards(
                 [vec EXCEPT ![value_insert_index + 1] = WordByte(NEW_VALUE, b)],
                 value_insert_index + 1, NEW_VALUE, b, be)

RECURSIVE Value_Updater(_, _, _, _, _)
Value_Updater(vec, value_insert_index, NEW_VALUE, bits, be) ==
    IF bits = 0 THEN vec
    ELSE LET b == bits - 8
         IN  Value_Updater(
                 [vec EXCEPT ![value_insert_index + 1] = WordByte(NEW_VALUE, b)],
                 IF be THEN value_insert_index + 1 ELSE value_insert_index - 1,
                 NEW_VALUE, b, be)

----------------------------------------------------------------------------
(* CRC-32 (Crc_Update, Crc)                                                *)

\* exclusive or of the bits of a and b that weigh k
BitXor(a, b, k) == (((a \div k) % 2) + ((b \div k) % 2)) % 2

\* bitwise exclusive or of two 4-bit values
NibbleXor ==
    [a \in 0..15 |-> [b \in 0..15 |->
        BitXor(a, b, 1) + 2 * BitXor(a, b, 2) + 4 * BitXor(a, b, 4) + 8 * BitXor(a, b, 8)]]

\* a ^ b on bytes
ByteXor(a, b) == 16 * NibbleXor[a \div 16][b \div 16] + NibbleXor[a % 16][b % 16]

\* Crc_Table of Crc_Update, each entry as a word
Crc_Table ==
    << <<\h00, \h00, \h00, \h00>>, <<\h77, \h07, \h30, \h96>>, <<\hEE, \h0E, \h61, \h2C>>, <<\h99, \h09, \h51, \hBA>>,
       <<\h07, \h6D, \hC4, \h19>>, <<\h70, \h6A, \hF4, \h8F>>, <<\hE9, \h63, \hA5, \h35>>, <<\h9E, \h64, \h95, \hA3>>,
       <<\h0E, \hDB, \h88, \h32>>, <<\h79, \hDC, \hB8, \hA4>>, <<\hE0, \hD5, \hE9, \h1E>>, <<\h97, \hD2, \hD9, \h88>>,
       <<\h09, \hB6, \h4C, \h2B>>, <<\h7E, \hB1, \h7C, \hBD>>, <<\hE7, \hB8, \h2D, \h07>>, <<\h90, \hBF, \h1D, \h91>>,
       <<\h1D, \hB7, \h10, \h64>>, <<\h6A, \hB0, \h20, \hF2>>, <<\hF3, \hB9, \h71, \h48>>, <<\h84, \hBE, \h41, \hDE>>,
       <<\h1A, \hDA, \hD4, \h7D>>, <<\h6D, \hDD, \hE4, \hEB>>, <<\hF4, \hD4, \hB5, \h51>>, <<\h83, \hD3, \h85, \hC7>>,
       <<\h13, \h6C, \h98, \h56>>, <<\h64, \h6B, \hA8, \hC0>>, <<\hFD, \h62, \hF9, \h7A>>, <<\h8A, \h65, \hC9, \hEC>>,
       <<\h14, \h01, \h5C, \h4F>>, <<\h63, \h06, \h6C, \hD9>>, <<\hFA, \h0F, \h3D, \h63>>, <<\h8D, \h08, \h0D, \hF5>>,
       <<\h3B, \h6E, \h20, \hC8>>, <<\h4C, \h69, \h10, \h5E>>, <<\hD5, \h60, \h41, \hE4>>, <<\hA2, \h67, \h71, \h72>>,
       <<\h3C, \h03, \hE4, \hD1>>, <<\h4B, \h04, \hD4, \h47>>, <<\hD2, \h0D, \h85, \hFD>>, <<\hA5, \h0A, \hB5, \h6B>>,
       <<\h35, \hB5, \hA8, \hFA>>, <<\h42, \hB2, \h98, \h6C>>, <<\hDB, \hBB, \hC9, \hD6>>, <<\hAC, \hBC, \hF9, \h40>>,
       <<\h32, \hD8, \h6C, \hE3>>, <<\h45, \hDF, \h5C, \h75>>, <<\hDC, \hD6, \h0D, \hCF>>, <<\hAB, \hD1, \h3D, \h59>>,
       <<\h26, \hD9, \h30, \hAC>>, <<\h51, \hDE, \h00, \h3A>>, <<\hC8, \hD7, \h51, \h80>>, <<\hBF, \hD0, \h61, \h16>>,
       <<\h21, \hB4, \hF4, \hB5>>, <<\h56, \hB3, \hC4, \h23>>, <<\hCF, \hBA, \h95, \h99>>, <<\hB8, \hBD, \hA5, \h0F>>,
       <<\h28, \h02, \hB8, \h9E>>, <<\h5F, \h05, \h88, \h08>>, <<\hC6, \h0C, \hD9, \hB2>>, <<\hB1, \h0B, \hE9, \h24>>,
       <<\h2F, \h6F, \h7C, \h87>>, <<\h58, \h68, \h4C, \h11>>, <<\hC1, \h61, \h1D, \hAB>>, <<\hB6, \h66, \h2D, \h3D>>,
       <<\h76, \hDC, \h41, \h90>>, <<\h01, \hDB, \h71, \h06>>, <<\h98, \hD2, \h20, \hBC>>, <<\hEF, \hD5, \h10, \h2A>>,
       <<\h71, \hB1, \h85, \h89>>, <<\h06, \hB6, \hB5, \h1F>>, <<\h9F, \hBF, \hE4, \hA5>>, <<\hE8, \hB8, \hD4, \h33>>,
       <<\h78, \h07, \hC9, \hA2>>, <<\h0F, \h00, \hF9, \h34>>, <<\h96, \h09, \hA8, \h8E>>, <<\hE1, \h0E, \h98, \h18>>,
       <<\h7F, \h6A, \h0D, \hBB>>, <<\h08, \h6D, \h3D, \h2D>>, <<\h91, \h64, \h6C, \h97>>, <<\hE6, \h63, \h5C, \h01>>,
       <<\h6B, \h6B, \h51, \hF4>>, <<\h1C, \h6C, \h61, \h62>>, <<\h85, \h65, \h30, \hD8>>, <<\hF2, \h62, \h00, \h4E>>,
       <<\h6C, \h06, \h95, \hED>>, <<\h1B, \h01, \hA5, \h7B>>, <<\h82, \h08, \hF4, \hC1>>, <<\hF5, \h0F, \hC4, \h57>>,
       <<\h65, \hB0, \hD9, \hC6>>, <<\h12, \hB7, \hE9, \h50>>, <<\h8B, \hBE, \hB8, \hEA>>, <<\hFC, \hB9, \h88, \h7C>>,
       <<\h62, \hDD, \h1D, \hDF>>, <<\h15, \hDA, \h2D, \h49>>, <<\h8C, \hD3, \h7C, \hF3>>, <<\hFB, \hD4, \h4C, \h65>>,
       <<\h4D, \hB2, \h61, \h58>>, <<\h3A, \hB5, \h51, \hCE>>, <<\hA3, \hBC, \h00, \h74>>, <<\hD4, \hBB, \h30, \hE2>>,
       <<\h4A, \hDF, \hA5, \h41>>, <<\h3D, \hD8, \h95, \hD7>>, <<\hA4, \hD1, \hC4, \h6D>>, <<\hD3, \hD6, \hF4, \hFB>>,
       <<\h43, \h69, \hE9, \h6A>>, <<\h34, \h6E, \hD9, \hFC>>, <<\hAD, \h67, \h88, \h46>>, <<\hDA, \h60, \hB8, \hD0>>,
       <<\h44, \h04, \h2D, \h73>>, <<\h33, \h03, \h1D, \hE5>>, <<\hAA, \h0A, \h4C, \h5F>>, <<\hDD, \h0D, \h7C, \hC9>>,
       <<\h50, \h05, \h71, \h3C>>, <<\h27, \h02, \h41, \hAA>>, <<\hBE, \h0B, \h10, \h10>>, <<\hC9, \h0C, \h20, \h86>>,
       <<\h57, \h68, \hB5, \h25>>, <<\h20, \h6F, \h85, \hB3>>, <<\hB9, \h66, \hD4, \h09>>, <<\hCE, \h61, \hE4, \h9F>>,
       <<\h5E, \hDE, \hF9, \h0E>>, <<\h29, \hD9, \hC9, \h98>>, <<\hB0, \hD0, \h98, \h22>>, <<\hC7, \hD7, \hA8, \hB4>>,
       <<\h59, \hB3, \h3D, \h17>>, <<\h2E, \hB4, \h0D, \h81>>, <<\hB7, \hBD, \h5C, \h3B>>, <<\hC0, \hBA, \h6C, \hAD>>,
       <<\hED, \hB8, \h83, \h20>>, <<\h9A, \hBF, \hB3, \hB6>>, <<\h03, \hB6, \hE2, \h0C>>, <<\h74, \hB1, \hD2, \h9A>>,
       <<\hEA, \hD5, \h47, \h39>>, <<\h9D, \hD2, \h77, \hAF>>, <<\h04, \hDB, \h26, \h15>>, <<\h73, \hDC, \h16, \h83>>,
       <<\hE3, \h63, \h0B, \h12>>, <<\h94, \h64, \h3B, \h84>>, <<\h0D, \h6D, \h6A, \h3E>>, <<\h7A, \h6A, \h5A, \hA8>>,
       <<\hE4, \h0E, \hCF, \h0B>>, <<\h93, \h09, \hFF, \h9D>>, <<\h0A, \h00, \hAE, \h27>>, <<\h7D, \h07, \h9E, \hB1>>,
       <<\hF0, \h0F, \h93, \h44>>, <<\h87, \h08, \hA3, \hD2>>, <<\h1E, \h01, \hF2, \h68>>, <<\h69, \h06, \hC2, \hFE>>,
       <<\hF7, \h62, \h57, \h5D>>, <<\h80, \h65, \h67, \hCB>>, <<\h19, \h6C, \h36, \h71>>, <<\h6E, \h6B, \h06, \hE7>>,
       <<\hFE, \hD4, \h1B, \h76>>, <<\h89, \hD3, \h2B, \hE0>>, <<\h10, \hDA, \h7A, \h5A>>, <<\h67, \hDD, \h4A, \hCC>>,
       <<\hF9, \hB9, \hDF, \h6F>>, <<\h8E, \hBE, \hEF, \hF9>>, <<\h17, \hB7, \hBE, \h43>>, <<\h60, \hB0, \h8E, \hD5>>,
       <<\hD6, \hD6, \hA3, \hE8>>, <<\hA1, \hD1, \h93, \h7E>>, <<\h38, \hD8, \hC2, \hC4>>, <<\h4F, \hDF, \hF2, \h52>>,
       <<\hD1, \hBB, \h67, \hF1>>, <<\hA6, \hBC, \h57, \h67>>, <<\h3F, \hB5, \h06, \hDD>>, <<\h48, \hB2, \h36, \h4B>>,
       <<\hD8, \h0D, \h2B, \hDA>>, <<\hAF, \h0A, \h1B, \h4C>>, <<\h36, \h03, \h4A, \hF6>>, <<\h41, \h04, \h7A, \h60>>,
       <<\hDF, \h60, \hEF, \hC3>>, <<\hA8, \h67, \hDF, \h55>>, <<\h31, \h6E, \h8E, \hEF>>, <<\h46, \h69, \hBE, \h79>>,
       <<\hCB, \h61, \hB3, \h8C>>, <<\hBC, \h66, \h83, \h1A>>, <<\h25, \h6F, \hD2, \hA0>>, <<\h52, \h68, \hE2, \h36>>,
       <<\hCC, \h0C, \h77, \h95>>, <<\hBB, \h0B, \h47, \h03>>, <<\h22, \h02, \h16, \hB9>>, <<\h55, \h05, \h26, \h2F>>,
       <<\hC5, \hBA, \h3B, \hBE>>, <<\hB2, \hBD, \h0B, \h28>>, <<\h2B, \hB4, \h5A, \h92>>, <<\h5C, \hB3, \h6A, \h04>>,
       <<\hC2, \hD7, \hFF, \hA7>>, <<\hB5, \hD0, \hCF, \h31>>, <<\h2C, \hD9, \h9E, \h8B>>, <<\h5B, \hDE, \hAE, \h1D>>,
       <<\h9B, \h64, \hC2, \hB0>>, <<\hEC, \h63, \hF2, \h26>>, <<\h75, \h6A, \hA3, \h9C>>, <<\h02, \h6D, \h93, \h0A>>,
       <<\h9C, \h09, \h06, \hA9>>, <<\hEB, \h0E, \h36, \h3F>>, <<\h72, \h07, \h67, \h85>>, <<\h05, \h00, \h57, \h13>>,
       <<\h95, \hBF, \h4A, \h82>>, <<\hE2, \hB8, \h7A, \h14>>, <<\h7B, \hB1, \h2B, \hAE>>, <<\h0C, \hB6, \h1B, \h38>>,
       <<\h92, \hD2, \h8E, \h9B>>, <<\hE5, \hD5, \hBE, \h0D>>, <<\h7C, \hDC, \hEF, \hB7>>, <<\h0B, \hDB, \hDF, \h21>>,
       <<\h86, \hD3, \hD2, \hD4>>, <<\hF1, \hD4, \hE2, \h42>>, <<\h68, \hDD, \hB3, \hF8>>, <<\h1F, \hDA, \h83, \h6E>>,
       <<\h81, \hBE, \h16, \hCD>>, <<\hF6, \hB9, \h26, \h5B>>, <<\h6F, \hB0, \h77, \hE1>>, <<\h18, \hB7, \h47, \h77>>,
       <<\h88, \h08, \h5A, \hE6>>, <<\hFF, \h0F, \h6A, \h70>>, <<\h66, \h06, \h3B, \hCA>>, <<\h11, \h01, \h0B, \h5C>>,
       <<\h8F, \h65, \h9E, \hFF>>, <<\hF8, \h62, \hAE, \h69>>, <<\h61, \h6B, \hFF, \hD3>>, <<\h16, \h6C, \hCF, \h45>>,
       <<\hA0, \h0A, \hE2, \h78>>, <<\hD7, \h0D, \hD2, \hEE>>, <<\h4E, \h04, \h83, \h54>>, <<\h39, \h03, \hB3, \hC2>>,
       <<\hA7, \h67, \h26, \h61>>, <<\hD0, \h60, \h16, \hF7>>, <<\h49, \h69, \h47, \h4D>>, <<\h3E, \h6E, \h77, \hDB>>,
       <<\hAE, \hD1, \h6A, \h4A>>, <<\hD9, \hD6, \h5A, \hDC>>, <<\h40, \hDF, \h0B, \h66>>, <<\h37, \hD8, \h3B, \hF0>>,
       <<\hA9, \hBC, \hAE, \h53>>, <<\hDE, \hBB, \h9E, \hC5>>, <<\h47, \hB2, \hCF, \h7F>>, <<\h30, \hB5, \hFF, \hE9>>,
       <<\hBD, \hBD, \hF2, \h1C>>, <<\hCA, \hBA, \hC2, \h8A>>, <<\h53, \hB3, \h93, \h30>>, <<\h24, \hB4, \hA3, \hA6>>,
       <<\hBA, \hD0, \h36, \h05>>, <<\hCD, \hD7, \h06, \h93>>, <<\h54, \hDE, \h57, \h29>>, <<\h23, \hD9, \h67, \hBF>>,
       <<\hB3, \h66, \h7A, \h2E>>, <<\hC4, \h61, \h4A, \hB8>>, <<\h5D, \h68, \h1B, \h02>>, <<\h2A, \h6F, \h2B, \h94>>,
       <<\hB4, \h0B, \hBE, \h37>>, <<\hC3, \h0C, \h8E, \hA1>>, <<\h5A, \h05, \hDF, \h1B>>, <<\h2D, \h02, \hEF, \h8D>> >>

\* one round of the loop: c = Crc_Table[(c ^ buf[n]) & 0xff] ^ (c >> 8)
Crc_Step(c, b) ==
    LET t == Crc_Table[ByteXor(c[4], b) + 1]
    IN  <<t[1], ByteXor(t[2], c[1]), ByteXor(t[3], c[2]), ByteXor(t[4], c[3])>>

\* Crc_Update(Crc, buf, len) with buf = &vec[from]: the running CRC after the rounds
\* for vec[from], ..., vec[from + len - 1] in that order.  The loop is unfolded by
\* halves (first half, then second half from the first half's result), which runs
\* the same rounds in the same order at a recursion depth of log2(len); the test
\* mid = mid makes TLC compute the first half before it descends into the second.
RECURSIVE Crc_Update(_, _, _, _)
Crc_Update(c, vec, from, len) ==
    IF len = 0 THEN c
    ELSE IF len = 1 THEN Crc_Step(c, At(vec, from))
    ELSE LET half == len \div 2
             mid == Crc_Update(c, vec, from, half)
         IN  IF mid = mid THEN Crc_Update(mid, vec, from + half, len - half) ELSE mid

\* Crc(&vec[from], len)
Crc(vec, from, len) ==
    LET c == Crc_Update(<<255, 255, 255, 255>>, vec, from, len)
    IN  <<ByteXor(c[1], 255), ByteXor(c[2], 255), ByteXor(c[3], 255), ByteXor(c[4], 255)>>

----------------------------------------------------------------------------
(* Program constants                                                       *)

MAX_FILE_SIZE == 209715200
MIN_IMAGE_SIZE == 68
MIN_ZIP_SIZE == 40

\* PDV_STRUCT::BAD_CHAR
BAD_CHAR == <<\h22, \h27, \h28, \h29, \h3B, \h3E, \h60>>

MAX_TRUECOLOR_DIMS == 899
MAX_INDEXED_COLOR_DIMS == 4096
MIN_DIMS == 68
PNG_INDEXED_COLOR == 3
PNG_TRUECOLOR == 2

PNG_TOP_SIG == <<\h89, \h50, \h4E, \h47>>
PNG_END_SIG == <<\h49, \h45, \h4E, \h44, \hAE, \h42, \h60, \h82>>
IDAT_SIG == <<\h49, \h44, \h41, \h54>>
PLTE_SIG == <<\h50, \h4C, \h54, \h45>>
ZIP_SIG == <<\h50, \h4B, \h03, \h04>>
START_CENTRAL_DIR_SIG == <<\h50, \h4B, \h01, \h02>>
END_CENTRAL_DIR_SIG == <<\h50, \h4B, \h05, \h06>>

----------------------------------------------------------------------------
(* Open_Files: the initial size check                                      *)

\* file_size_check (line 120)
File_Size_Check(img_size, zp_size) ==
    /\ img_size > MIN_IMAGE_SIZE
    /\ zp_size > MIN_ZIP_SIZE
    /\ MAX_FILE_SIZE >= img_size + zp_size

\* the message chosen when file_size_check is false (lines 124-126)
File_Size_Error(img_size, zp_size) ==
    IF MIN_IMAGE_SIZE > img_size
    THEN "File Size Error: Invalid PNG image. File too small"
    ELSE IF MIN_ZIP_SIZE > zp_size
         THEN "File Size Error: Invalid ZIP file. File too small"
         ELSE "File Size Error: The combined file size of your PNG image and ZIP file exceeds maximum limit"

\* the run ends through std::exit(EXIT_FAILURE) after writing message d
Fail(d) ==
    /\ pc' = "exit"
    /\ status' = 1
    /\ diag' = d

\* the run reads or copies outside a vector: the behaviour of the C++ program is
\* undefined from here on, and the model follows it no further
Undefined ==
    /\ pc' = "undefined"
    /\ UNCHANGED <<status, diag>>

----------------------------------------------------------------------------
(* main                                                                    *)

INFO_ARG == <<\h2D, \h2D, \h69, \h6E, \h66, \h6F>>     \* --info
PNG_EXT == <<\h70, \h6E, \h67>>                        \* png
ZIP_EXT == <<\h7A, \h69, \h70>>                        \* zip

\* name.length() > 2 ? name.substr(name.length() - 3) : name (lines 72-73)
Get_Ext(name) == IF Len(name) > 2 THEN Slice(name, Len(name) - 3, Len(name)) ELSE name

\* the characters of the class [a-zA-Z_0-9\.\\\s\-\/] of REG_EXP
Reg_Exp_Char(c) ==
    \/ c \in 97..122 \/ c \in 65..90 \/ c \in 48..57
    \/ c \in {\h5F, \h2E, \h5C, \h2D, \h2F}
    \/ c \in {\h20, \h09, \h0A, \h0B, \h0C, \h0D}

\* regex_match(name, REG_EXP): the optional first and last groups match strings of
\* the class of the middle group, so the expression matches exactly the non-empty
\* strings over that class
Regex_Match(name) == Len(name) >= 1 /\ \A k \in 1..Len(name) : Reg_Exp_Char(name[k])

\* the message of lines 77-78, "" when the two names pass
File_Name_Error(image_name, zip_name) ==
    IF Get_Ext(image_name) # PNG_EXT \/ Get_Ext(zip_name) # ZIP_EXT
    THEN "File Type Error: Invalid file extension found. Only expecting 'png' followed by 'zip'"
    ELSE IF ~Regex_Match(image_name) \/ ~Regex_Match(zip_name)
    THEN "Invalid Input Error: Characters not supported by this program found within file name arguments"
    ELSE ""

\* lines 54-84 up to the call of Open_Files; argc is Len(argv) + 1
Main ==
    /\ pc = "main"
    /\ IF Len(argv) + 1 = 2 /\ argv[1] = INFO_ARG
       THEN \* Display_Info, then return 0
            /\ pc' = "exit"
            /\ UNCHANGED <<status, diag>>
       ELSE IF Len(argv) + 1 < 3 \/ Len(argv) + 1 > 3
       THEN \* the usage text on the output stream, then return 0
            /\ pc' = "exit"
            /\ UNCHANGED <<status, diag>>
       ELSE IF File_Name_Error(argv[1], argv[2]) # ""
       THEN Fail(File_Name_Error(argv[1], argv[2]))
       ELSE /\ pc' = "Open_Files"
            /\ UNCHANGED <<status, diag>>
    /\ UNCHANGED <<updater_call, argv, image_file, zip_file, Image_Vec, Zip_Vec, Script_Vec, image_size,
                   zip_size, script_size, combined_file_size, big_endian, prompted,
                   args_linux, args_windows, out_file>>

----------------------------------------------------------------------------
(* Open_Files: opening the two files                                       *)

Open_Files ==
    /\ pc = "Open_Files"
    /\ \E image_ifs, zip_ifs \in BOOLEAN :
          IF ~image_ifs \/ ~zip_ifs
          THEN /\ Fail(IF ~image_ifs THEN "Read File Error: Unable to open image file"
                                     ELSE "Read File Error: Unable to open ZIP file")
               /\ UNCHANGED <<image_size, zip_size, combined_file_size>>
          ELSE /\ image_size' = Len(image_file)
               /\ zip_size' = Len(zip_file)
               /\ combined_file_size' = Len(image_file) + Len(zip_file)
               /\ IF File_Size_Check(Len(image_file), Len(zip_file))
                  THEN /\ pc' = "Check_Image_File"
                       /\ UNCHANGED <<status, diag>>
                  ELSE Fail(File_Size_Error(Len(image_file), Len(zip_file)))
    /\ UNCHANGED <<updater_call, argv, image_file, zip_file, Image_Vec, Zip_Vec, Script_Vec, script_size,
                   big_endian, prompted, args_linux, args_windows, out_file>>

----------------------------------------------------------------------------
(* Check_Image_File                                                        *)

\* GET_PNG_TOP_SIG == PNG_TOP_SIG and GET_PNG_END_SIG == PNG_END_SIG (lines 144-148)
Valid_Png_Signatures(vec) ==
    /\ Slice(vec, 0, Len(PNG_TOP_SIG)) = PNG_TOP_SIG
    /\ Slice(vec, Len(vec) - Len(PNG_END_SIG), Len(vec)) = PNG_END_SIG

\* the loop of lines 158-170: chunk_index runs over 19..32
Bad_Char_In_IHDR(vec) ==
    \E chunk_index \in 19..32 : \E i \in 1..7 : At(vec, chunk_index) = BAD_CHAR[i]

IMAGE_WIDTH_DIMS(vec) == At(vec, 18) * 256 + At(vec, 19)
IMAGE_HEIGHT_DIMS(vec) == At(vec, 22) * 256 + At(vec, 23)
PNG_COLOR_TYPE(vec) == IF At(vec, 25) = 6 THEN 2 ELSE At(vec, 25)

VALID_COLOR_TYPE(vec) ==
    IF PNG_COLOR_TYPE(vec) = PNG_INDEXED_COLOR THEN TRUE
    ELSE IF PNG_COLOR_TYPE(vec) = PNG_TRUECOLOR THEN TRUE ELSE FALSE

VALID_IMAGE_DIMS(vec) ==
    IF /\ PNG_COLOR_TYPE(vec) = PNG_TRUECOLOR
       /\ MAX_TRUECOLOR_DIMS >= IMAGE_WIDTH_DIMS(vec)
       /\ MAX_TRUECOLOR_DIMS >= IMAGE_HEIGHT_DIMS(vec)
       /\ IMAGE_WIDTH_DIMS(vec) >= MIN_DIMS
       /\ IMAGE_HEIGHT_DIMS(vec) >= MIN_DIMS
    THEN TRUE
    ELSE IF /\ PNG_COLOR_TYPE(vec) = PNG_INDEXED_COLOR
            /\ MAX_INDEXED_COLOR_DIMS >= IMAGE_WIDTH_DIMS(vec)
            /\ MAX_INDEXED_COLOR_DIMS >= IMAGE_HEIGHT_DIMS(vec)
            /\ IMAGE_WIDTH_DIMS(vec) >= MIN_DIMS
            /\ IMAGE_HEIGHT_DIMS(vec) >= MIN_DIMS
         THEN TRUE ELSE FALSE

\* the checks of Check_Image_File with the colour and dimension check moved before
\* the search for forbidden bytes
Image_File_Error_Dims_First(vec) ==
    IF ~Valid_Png_Signatures(vec)
    THEN "Image File Error: File does not appear to be a valid PNG image"
    ELSE IF ~VALID_COLOR_TYPE(vec)
    THEN "Image File Error: Color type of PNG image is not supported"
    ELSE IF ~VALID_IMAGE_DIMS(vec)
    THEN "Image File Error: Dimensions of PNG image are not within the supported range"
    ELSE IF Bad_Char_In_IHDR(vec)
    THEN "Image File Error: The IHDR chunk of this image contains a character that will break the Linux extraction script"
    ELSE ""

\* the message of the first failing check, "" when the image passes them all
Image_File_Error(vec) ==
    IF ~Valid_Png_Signatures(vec)
    THEN "Image File Error: File does not appear to be a valid PNG image"
    ELSE IF Bad_Char_In_IHDR(vec)
    THEN "Image File Error: The IHDR chunk of this image contains a character that will break the Linux extraction script"
    ELSE IF ~VALID_COLOR_TYPE(vec)
    THEN "Image File Error: Color type of PNG image is not supported"
    ELSE IF ~VALID_IMAGE_DIMS(vec)
    THEN "Image File Error: Dimensions of PNG image are not within the supported range"
    ELSE ""

Check_Image_File ==
    /\ pc = "Check_Image_File"
    /\ Image_Vec' = image_file
    /\ image_size' = Len(image_file)
    /\ IF Image_File_Error(image_file) # ""
       THEN Fail(Image_File_Error(image_file))
       ELSE /\ pc' = "Erase_Image_Chunks"
            /\ UNCHANGED <<status, diag>>
    /\ UNCHANGED <<updater_call, argv, image_file, zip_file, Zip_Vec, Script_Vec, zip_size, script_size,
                   combined_file_size, big_endian, prompted, args_linux, args_windows,
                   out_file>>

----------------------------------------------------------------------------
(* Erase_Image_Chunks                                                      *)

\* values from 2^30 up are carried as 2^30, beyond every buffer the model builds
SIZE_CAP == 2^30

\* the 32-bit big-endian value at vec[i..i+3] (the shifts and ors of lines 229-232)
Read32(vec, i) ==
    IF At(vec, i) >= 64 THEN SIZE_CAP
    ELSE ((At(vec, i) * 256 + At(vec, i + 1)) * 256 + At(vec, i + 2)) * 256 + At(vec, i + 3)

\* the 24-bit big-endian value at vec[i+1..i+3] (lines 259-261)
Read24(vec, i) == (At(vec, i + 1) * 256 + At(vec, i + 2)) * 256 + At(vec, i + 3)

\* idat_index of line 223
First_IDAT_Index(vec) == Search(vec, 0, IDAT_SIG) - 4

FIRST_IDAT_LENGTH(vec) == Read32(vec, First_IDAT_Index(vec))
FIRST_IDAT_CRC_INDEX(vec) == First_IDAT_Index(vec) + FIRST_IDAT_LENGTH(vec) + 8

\* whether the reads of lines 237-242 stay inside the vector
First_IDAT_In_Range(vec) ==
    /\ FIRST_IDAT_LENGTH(vec) < SIZE_CAP
    /\ FIRST_IDAT_CRC_INDEX(vec) + 4 <= Len(vec)

\* FIRST_IDAT_CRC == CALC_FIRST_IDAT_CRC (line 245)
First_IDAT_Crc_Valid(vec) ==
    Slice(vec, FIRST_IDAT_CRC_INDEX(vec), FIRST_IDAT_CRC_INDEX(vec) + 4)
        = Crc(vec, First_IDAT_Index(vec) + 4, FIRST_IDAT_LENGTH(vec) + 4)

\* PLTE_CHUNK_INDEX of line 256
PLTE_CHUNK_INDEX(vec) == Search(vec, 0, PLTE_SIG) - 4

\* the end of the range copied at line 263
PLTE_Copy_End(vec) == PLTE_CHUNK_INDEX(vec) + Read24(vec, PLTE_CHUNK_INDEX(vec)) + 12

\* the loop of lines 272-280: [ub |-> a copy left the vector, Temp_Vec |-> the result]
RECURSIVE Copy_IDAT_Chunks(_, _, _)
Copy_IDAT_Chunks(vec, Temp_Vec, idat_index) ==
    IF Len(vec) = idat_index + 4
    THEN [ub |-> FALSE, Temp_Vec |-> Temp_Vec]
    ELSE LET CHUNK_SIZE == Read32(vec, idat_index)
         IN  IF idat_index + CHUNK_SIZE + 12 > Len(vec)
             THEN [ub |-> TRUE, Temp_Vec |-> Temp_Vec]
             ELSE Copy_IDAT_Chunks(
                      vec,
                      Temp_Vec \o Slice(vec, idat_index, idat_index + CHUNK_SIZE + 12),
                      Search(vec, idat_index + 6, IDAT_SIG) - 4)

\* Temp_Vec after lines 218 and 250-269 (the header and, for colour type 3, the PLTE chunk)
Header_And_PLTE(vec) ==
    IF At(vec, 25) = 3
    THEN Slice(vec, 0, 33) \o Slice(vec, PLTE_CHUNK_INDEX(vec), PLTE_Copy_End(vec))
    ELSE Slice(vec, 0, 33)

\* Temp_Vec at line 285
Pruned_Image(vec) ==
    Copy_IDAT_Chunks(vec, Header_And_PLTE(vec), First_IDAT_Index(vec)).Temp_Vec
        \o Slice(vec, Len(vec) - 12, Len(vec))

Erase_Image_Chunks ==
    /\ pc = "Erase_Image_Chunks"
    /\ IF ~First_IDAT_In_Range(Image_Vec)
       THEN Undefined /\ UNCHANGED <<Image_Vec, image_size>>
       ELSE IF ~First_IDAT_Crc_Valid(Image_Vec)
       THEN /\ Fail("Image File Error: CRC value for first IDAT chunk is invalid")
            /\ UNCHANGED <<Image_Vec, image_size>>
       ELSE IF At(Image_Vec, 25) = 3 /\ ~(First_IDAT_Index(Image_Vec) > PLTE_CHUNK_INDEX(Image_Vec))
       THEN /\ Fail("Image File Error: Required PLTE chunk not found for Indexed-color (PNG-8) image")
            /\ UNCHANGED <<Image_Vec, image_size>>
       ELSE IF \/ At(Image_Vec, 25) = 3 /\ PLTE_Copy_End(Image_Vec) > Len(Image_Vec)
               \/ Copy_IDAT_Chunks(Image_Vec, <<>>, First_IDAT_Index(Image_Vec)).ub
       THEN Undefined /\ UNCHANGED <<Image_Vec, image_size>>
       ELSE /\ Image_Vec' = Pruned_Image(Image_Vec)
            /\ image_size' = Len(Pruned_Image(Image_Vec))
            /\ pc' = "Check_Zip_File"
            /\ UNCHANGED <<status, diag>>
    /\ UNCHANGED <<updater_call, argv, image_file, zip_file, Zip_Vec, Script_Vec, zip_size, script_size,
                   combined_file_size, big_endian, prompted, args_linux, args_windows,
                   out_file>>

----------------------------------------------------------------------------
(* Check_Zip_File                                                          *)

MIN_INZIP_NAME_LENGTH == 4

\* Zip_Vec after lines 298-311: the IDAT frame around the archive, its length written
Wrapped_Zip(file, be) ==
    LET framed == <<\h00, \h00, \h00, \h00, \h49, \h44, \h41, \h54>> \o file
                      \o <<\h00, \h00, \h00, \h00>>
    IN  Value_Updater(framed, 0, Word(Len(framed) - 12), 32, be)

GET_ZIP_SIG(zvec) == Slice(zvec, 8, 8 + Len(ZIP_SIG))

\* a read of the byte before the length of the first name
INZIP_NAME_LENGTH_At_33(zvec) == At(zvec, 33)

INZIP_NAME_LENGTH(zvec) == At(zvec, 34)

Check_Zip_File ==
    /\ pc = "Check_Zip_File"
    /\ Zip_Vec' = Wrapped_Zip(zip_file, big_endian)
    /\ zip_size' = Len(zip_file) + 12
    /\ IF GET_ZIP_SIG(Zip_Vec') # ZIP_SIG
       THEN Fail("ZIP File Error: File does not appear to be a valid ZIP archive")
       ELSE IF MIN_INZIP_NAME_LENGTH > INZIP_NAME_LENGTH(Zip_Vec')
       THEN Fail("ZIP File Error: Name length of first file within ZIP archive is too short")
       ELSE /\ pc' = "Complete_Extraction_Script"
            /\ UNCHANGED <<status, diag>>
    /\ UNCHANGED <<updater_call, argv, image_file, zip_file, Image_Vec, Script_Vec, image_size, script_size,
                   combined_file_size, big_endian, prompted, args_linux, args_windows,
                   out_file>>

----------------------------------------------------------------------------
(* Complete_Extraction_Script                                              *)

\* Script_Vec as initialised at lines 347-366: the iCCP chunk with the barebones script
Script_Template ==
    <<\h00, \h00, \h00, \hFD, \h69, \h43, \h43, \h50, \h73, \h63, \h72, \h00, \h00, \h0D, \h52,
     \h45, \h4D, \h3B, \h63, \h6C, \h65, \h61, \h72, \h3B, \h6D, \h6B, \h64, \h69, \h72, \h20,
     \h2E, \h2F, \h70, \h64, \h76, \h7A, \h69, \h70, \h5F, \h65, \h78, \h74, \h72, \h61, \h63,
     \h74, \h65, \h64, \h3B, \h6D, \h76, \h20, \h22, \h24, \h30, \h22, \h20, \h2E, \h2F, \h70,
     \h64, \h76, \h7A, \h69, \h70, \h5F, \h65, \h78, \h74, \h72, \h61, \h63, \h74, \h65, \h64,
     \h3B, \h63, \h64, \h20, \h2E, \h2F, \h70, \h64, \h76, \h7A, \h69, \h70, \h5F, \h65, \h78,
     \h74, \h72, \h61, \h63, \h74, \h65, \h64, \h3B, \h75, \h6E, \h7A, \h69, \h70, \h20, \h2D,
     \h71, \h6F, \h20, \h22, \h24, \h30, \h22, \h3B, \h63, \h6C, \h65, \h61, \h72, \h3B, \h22,
     \h22, \h3B, \h65, \h78, \h69, \h74, \h3B, \h0D, \h0A, \h23, \h26, \h63, \h6C, \h73, \h26,
     \h6D, \h6B, \h64, \h69, \h72, \h20, \h2E, \h5C, \h70, \h64, \h76, \h7A, \h69, \h70, \h5F,
     \h65, \h78, \h74, \h72, \h61, \h63, \h74, \h65, \h64, \h26, \h6D, \h6F, \h76, \h65, \h20,
     \h22, \h25, \h7E, \h64, \h70, \h6E, \h78, \h30, \h22, \h20, \h2E, \h5C, \h70, \h64, \h76,
     \h7A, \h69, \h70, \h5F, \h65, \h78, \h74, \h72, \h61, \h63, \h74, \h65, \h64, \h26, \h63,
     \h64, \h20, \h2E, \h5C, \h70, \h64, \h76, \h7A, \h69, \h70, \h5F, \h65, \h78, \h74, \h72,
     \h61, \h63, \h74, \h65, \h64, \h26, \h63, \h6C, \h73, \h26, \h74, \h61, \h72, \h20, \h2D,
     \h78, \h66, \h20, \h22, \h25, \h7E, \h6E, \h30, \h25, \h7E, \h78, \h30, \h22, \h26, \h20,
     \h22, \h22, \h26, \h72, \h65, \h6E, \h20, \h22, \h25, \h7E, \h6E, \h30, \h25, \h7E, \h78,
     \h30, \h22, \h20, \h2A, \h2E, \h70, \h6E, \h67, \h26, \h65, \h78, \h69, \h74, \h0D, \h0A,
     \h00, \h00, \h00, \h00>>

\* App_Vec as initialised at lines 372-374 (index i of the source is element i + 1)
App_Vec_Init ==
    <<
       <<\h61, \h61, \h63>>,  \*  0  aac
       <<\h6D, \h70, \h33>>,  \*  1  mp3
       <<\h6D, \h70, \h34>>,  \*  2  mp4
       <<\h61, \h76, \h69>>,  \*  3  avi
       <<\h61, \h73, \h66>>,  \*  4  asf
       <<\h66, \h6C, \h76>>,  \*  5  flv
       <<\h65, \h62, \h6D>>,  \*  6  ebm
       <<\h6D, \h6B, \h76>>,  \*  7  mkv
       <<\h70, \h65, \h67>>,  \*  8  peg
       <<\h77, \h61, \h76>>,  \*  9  wav
       <<\h77, \h6D, \h76>>,  \* 10  wmv
       <<\h77, \h6D, \h61>>,  \* 11  wma
       <<\h6D, \h6F, \h76>>,  \* 12  mov
       <<\h33, \h67, \h70>>,  \* 13  3gp
       <<\h6F, \h67, \h67>>,  \* 14  ogg
       <<\h70, \h64, \h66>>,  \* 15  pdf
       <<\h2E, \h70, \h79>>,  \* 16  .py
       <<\h70, \h73, \h31>>,  \* 17  ps1
       <<\h65, \h78, \h65>>,  \* 18  exe
       <<\h2E, \h73, \h68>>,  \* 19  .sh
       <<\h76, \h6C, \h63, \h20, \h2D, \h2D, \h70, \h6C, \h61, \h79, \h2D, \h61, \h6E, \h64, \h2D, \h65, \h78, \h69, \h74, \h20, \h2D, \h2D, \h6E, \h6F, \h2D, \h76, \h69, \h64, \h65, \h6F, \h2D, \h74, \h69, \h74, \h6C, \h65, \h2D, \h73, \h68, \h6F, \h77, \h20>>,  \* 20  vlc --play-and-exit --no-video-title-show 
       <<\h65, \h76, \h69, \h6E, \h63, \h65, \h20>>,  \* 21  evince 
       <<\h70, \h79, \h74, \h68, \h6F, \h6E, \h33, \h20>>,  \* 22  python3 
       <<\h70, \h77, \h73, \h68, \h20>>,  \* 23  pwsh 
       <<\h2E, \h2F>>,  \* 24  ./
       <<\h78, \h64, \h67, \h2D, \h6F, \h70, \h65, \h6E, \h20>>,  \* 25  xdg-open 
       <<\h70, \h6F, \h77, \h65, \h72, \h73, \h68, \h65, \h6C, \h6C, \h3B, \h49, \h6E, \h76, \h6F, \h6B, \h65, \h2D, \h49, \h74, \h65, \h6D, \h20>>,  \* 26  powershell;Invoke-Item 
       <<\h20, \h26, \h3E, \h20, \h2F, \h64, \h65, \h76, \h2F, \h6E, \h75, \h6C, \h6C>>,  \* 27   &> /dev/null
       <<\h73, \h74, \h61, \h72, \h74, \h20, \h2F, \h62, \h20, \h22, \h22>>,  \* 28  start /b ""
       <<\h70, \h61, \h75, \h73, \h65, \h26>>,  \* 29  pause&
       <<\h70, \h6F, \h77, \h65, \h72, \h73, \h68, \h65, \h6C, \h6C>>,  \* 30  powershell
       <<\h63, \h68, \h6D, \h6F, \h64, \h20, \h2B, \h78, \h20>>,  \* 31  chmod +x 
       <<\h3B>>   \* 32  ;
    >>

FIRST_ZIP_NAME_REC_LENGTH_INDEX == 34
FIRST_ZIP_NAME_REC_INDEX == 38
VIDEO_AUDIO == 20
PDF == 21
PYTHON == 22
POWERSHELL == 23
EXECUTABLE == 24
BASH_XDG_OPEN == 25
FOLDER_INVOKE_ITEM == 26
START_B == 28
WIN_POWERSHELL == 30
PREPEND_FIRST_ZIP_NAME_REC == 36
MAX_SCRIPT_SIZE == 750
ICCP_CHUNK_INDEX == 4

\* std::string::npos, the largest size_t: carried as the largest TLC integer
NPOS == 2147483647

\* a sequence vector whose first sequence lists its insert positions from low to high
Sequence_Vec_Ascending ==
    <<119, 120, 121, 239, 241,
      20, 33, 27, 28, 33,
      241, 239, 120, 119,
      33, 28, 33, 21,
      264, 242, 241, 239, 121, 120, 119,
      29, 35, 33, 22, 34, 33, 22,
      264, 242, 241, 239, 121, 120, 119, 119, 119, 119,
      29, 35, 33, 28, 34, 33, 24, 32, 33, 31>>

\* Sequence_Vec as initialised at lines 429-440 (index i of the source is element i + 1)
Sequence_Vec_Init ==
    <<241, 239, 121, 120, 119,
      33, 28, 27, 33, 20,
      241, 239, 120, 119,
      33, 28, 33, 21,
      264, 242, 241, 239, 121, 120, 119,
      29, 35, 33, 22, 34, 33, 22,
      264, 242, 241, 239, 121, 120, 119, 119, 119, 119,
      29, 35, 33, 28, 34, 33, 24, 32, 33, 31>>

FIRST_ZIP_NAME_REC_LENGTH(zvec) == At(zvec, FIRST_ZIP_NAME_REC_LENGTH_INDEX)

\* whether the name bytes of line 398 lie inside Zip_Vec
First_Zip_Name_In_Range(zvec) ==
    FIRST_ZIP_NAME_REC_INDEX + FIRST_ZIP_NAME_REC_LENGTH(zvec) <= Len(zvec)

\* first_zip_name (line 398)
First_Zip_Name(zvec) ==
    Slice(zvec, FIRST_ZIP_NAME_REC_INDEX,
          FIRST_ZIP_NAME_REC_INDEX + FIRST_ZIP_NAME_REC_LENGTH(zvec))

\* first_zip_name_ext (line 401)
First_Zip_Name_Ext(name) == Slice(name, Len(name) - 3, Len(name))

\* CHECK_FILE_EXT (line 408): name.find_last_of('.')
CHECK_FILE_EXT(name) ==
    LET dots == {i \in 0..(Len(name) - 1) : At(name, i) = \h2E}
    IN  IF dots = {} THEN NPOS ELSE CHOOSE i \in dots : \A j \in dots : j <= i

\* a variant of the loop below that counts index 15 among the video/audio keys
RECURSIVE Match_Extension_Wide(_, _)
Match_Extension_Wide(app_index, ext) ==
    IF app_index = 26 THEN app_index
    ELSE IF App_Vec_Init[app_index + 1] = ext
         THEN (IF app_index <= 15 THEN 20 ELSE app_index + 6)
         ELSE Match_Extension_Wide(app_index + 1, ext)

\* the for loop of lines 459-466, entered with app_index
RECURSIVE Match_Extension(_, _)
Match_Extension(app_index, ext) ==
    IF app_index = 26 THEN app_index
    ELSE IF App_Vec_Init[app_index + 1] = ext
         THEN (IF app_index <= 14 THEN 20 ELSE app_index + 6)
         ELSE Match_Extension(app_index + 1, ext)

\* a variant of the test below without its second disjunct
No_File_Ext_Leading_Dot_Only(name) == CHECK_FILE_EXT(name) = 0

\* whether the test of line 469 holds
No_File_Ext(name) == CHECK_FILE_EXT(name) = 0 \/ CHECK_FILE_EXT(name) > Len(name)

\* app_index after lines 459-471
Select_App_Index(zvec) ==
    LET name == First_Zip_Name(zvec)
    IN  IF No_File_Ext(name)
        THEN (IF At(zvec, FIRST_ZIP_NAME_REC_INDEX + FIRST_ZIP_NAME_REC_LENGTH(zvec) - 1) = \h2F
              THEN FOLDER_INVOKE_ITEM ELSE EXECUTABLE)
        ELSE Match_Extension(0, First_Zip_Name_Ext(name))

\* a variant of the test below without its upper limit
Prompt_For_Args_Unlimited(app_index) == app_index > 21

\* a variant of the test below that also takes PDF
Prompt_For_Args_From_Pdf(app_index) == app_index > 20 /\ app_index < 26

\* the test of line 477
Prompt_For_Args(app_index) == app_index > 21 /\ app_index < 26

\* Sequence_Vec[i] = v
Set_Sequence(seq, i, v) == [seq EXCEPT ![i + 1] = v]

\* the switch of lines 492-524: the sequence vector and the two running indices
Switch_Case(app_index) ==
    CASE app_index = VIDEO_AUDIO ->
            [Sequence_Vec |-> Sequence_Vec_Init, insert_index |-> 0, app_index |-> 5]
      [] app_index = PDF \/ app_index = FOLDER_INVOKE_ITEM ->
            [Sequence_Vec |->
                Set_Sequence(
                    Set_Sequence(Sequence_Vec_Init, 15,
                        IF app_index = FOLDER_INVOKE_ITEM THEN FOLDER_INVOKE_ITEM ELSE START_B),
                    17, IF app_index = FOLDER_INVOKE_ITEM THEN BASH_XDG_OPEN ELSE PDF),
             insert_index |-> 10, app_index |-> 14]
      [] app_index = PYTHON \/ app_index = POWERSHELL ->
            [Sequence_Vec |->
                IF app_index = POWERSHELL
                THEN Set_Sequence(
                         Set_Sequence(
                             Set_Sequence(Sequence_Vec_Init, 31, POWERSHELL),
                             28, WIN_POWERSHELL),
                         27, PREPEND_FIRST_ZIP_NAME_REC)
                ELSE Sequence_Vec_Init,
             insert_index |-> 18, app_index |-> 25]
      [] app_index = EXECUTABLE \/ app_index = BASH_XDG_OPEN ->
            [Sequence_Vec |-> Sequence_Vec_Init,
             insert_index |-> IF app_index = EXECUTABLE THEN 32 ELSE 33,
             app_index |-> IF app_index = EXECUTABLE THEN 42 ELSE 43]
      [] OTHER ->
            [Sequence_Vec |-> Set_Sequence(Sequence_Vec_Init, 17, BASH_XDG_OPEN),
             insert_index |-> 10, app_index |-> 14]

\* sequence_limit (line 529)
Sequence_Limit(sw) == IF sw.insert_index = 33 THEN sw.app_index - 1 ELSE sw.app_index

\* App_Vec after the emplace_back calls of lines 411, 486-487 and 507
App_Vec_Final(name, app_index, a_linux, a_windows) ==
    App_Vec_Init \o <<name>>
        \o (IF Prompt_For_Args(app_index) THEN <<a_linux, a_windows>> ELSE <<>>)
        \o (IF app_index = POWERSHELL THEN <<(<<\h2E, \h5C>> \o name)>> ELSE <<>>)

\* the while loop of lines 534-538
RECURSIVE Insert_Loop(_, _, _, _, _, _)
Insert_Loop(script, seq, app_vec, insert_index, app_index, sequence_limit) ==
    IF ~(sequence_limit > insert_index) THEN script
    ELSE Insert_Loop(
             Insert(script, seq[insert_index + 1], app_vec[seq[app_index + 1] + 1]),
             seq, app_vec, insert_index + 1, app_index + 1, sequence_limit)

\* Script_Vec at line 540: the template with the strings of the selected sequence inserted
Composed_Script(zvec, a_linux, a_windows) ==
    LET sel == Select_App_Index(zvec)
        sw == Switch_Case(sel)
    IN  Insert_Loop(Script_Template, sw.Sequence_Vec,
                    App_Vec_Final(First_Zip_Name(zvec), sel, a_linux, a_windows),
                    sw.insert_index, sw.app_index, Sequence_Limit(sw))

\* whether Script_Vec[3] is one of BAD_CHAR (lines 554-555)
Bad_Length_Byte(script) == \E i \in 1..7 : At(script, 3) = BAD_CHAR[i]

INCREASE_LENGTH_STRING == [i \in 1..10 |-> \h2E]

\* lines 540-549 alone: the chunk length written and never padded
Sized_Script_Unpadded(script, be) == Value_Updater(script, 2, Word(Len(script) - 12), 16, be)

\* Script_Vec after lines 540-570: the chunk length written, padded once when needed
Sized_Script(script, be) ==
    LET first == Value_Updater(script, 2, Word(Len(script) - 12), 16, be)
    IN  IF Bad_Length_Byte(first)
        THEN LET padded == Insert(first, Len(script) - 4, INCREASE_LENGTH_STRING)
             IN  Value_Updater(padded, 2, Word(Len(padded) - 12), 16, be)
        ELSE first

\* Script_Vec after lines 588-596: the CRC of the iCCP chunk written into its last 4 bytes
Script_With_Crc(script, be) ==
    Value_Updater(script, Len(script) - 4,
                  Crc(script, ICCP_CHUNK_INDEX, Len(script) - 8), 32, be)

\* the lines a user may type at an argument prompt: "", "-", "-x", "-xx", ...
MaxArgLen == 1
Arg_Lines == {[i \in 1..n |-> IF i = 1 THEN \h2D ELSE \h78] : n \in 0..MaxArgLen}

\* a size test that lets a script of up to ten bytes over the limit pass
Script_Too_Large_By_Ten(scr_size) == scr_size > MAX_SCRIPT_SIZE + 10

\* pdv.script_size > MAX_SCRIPT_SIZE of lines 579-580
Script_Too_Large(scr_size) == scr_size > MAX_SCRIPT_SIZE

\* lines 330-600, where Typed is the set of pairs <<Linux line, Windows line>> that
\* standard input may hold when the two argument prompts are answered
Complete_Extraction_Script_Reading(Typed) ==
    /\ pc = "Complete_Extraction_Script"
    /\ IF ~First_Zip_Name_In_Range(Zip_Vec)
       THEN /\ Undefined
            /\ UNCHANGED <<Script_Vec, script_size, combined_file_size, prompted,
                           args_linux, args_windows>>
       ELSE /\ prompted' = Prompt_For_Args(Select_App_Index(Zip_Vec))
            /\ IF prompted'
               THEN \E typed \in Typed :
                       /\ args_linux' = <<\h20>> \o typed[1]
                       /\ args_windows' = <<\h20>> \o typed[2]
               ELSE UNCHANGED <<args_linux, args_windows>>
            /\ \E sized \in {Sized_Script(Composed_Script(Zip_Vec, args_linux', args_windows'),
                                           big_endian)} :
                   /\ script_size' = Len(sized)
                   /\ combined_file_size' = Len(sized) + Len(Image_Vec) + Len(Zip_Vec)
                   /\ IF Script_Too_Large(Len(sized))
                      THEN /\ Script_Vec' = sized
                           /\ Fail("File Size Error: Extraction script exceeds size limit")
                      ELSE IF combined_file_size' > MAX_FILE_SIZE
                      THEN /\ Script_Vec' = sized
                           /\ Fail("File Size Error: The combined file size of your PNG image, ZIP file and Extraction Script, exceeds file size limit")
                      ELSE /\ Script_Vec' = Script_With_Crc(sized, big_endian)
                           /\ pc' = "Combine_Vectors"
                           /\ UNCHANGED <<status, diag>>
    /\ UNCHANGED <<updater_call, argv, image_file, zip_file, Image_Vec, Zip_Vec, image_size, zip_size,
                   big_endian, out_file>>

Complete_Extraction_Script == Complete_Extraction_Script_Reading(Arg_Lines \X Arg_Lines)

----------------------------------------------------------------------------
(* Fix_Zip_Offset                                                          *)

\* the 16-bit value (vec[i] << 8) | vec[i - 1] (lines 664 and 682)
Read16_LE_At_Last(vec, i) == At(vec, i) * 256 + At(vec, i - 1)

START_CENTRAL_DIR_INDEX(vec, IDAT_ZIP_INDEX) == Search(vec, IDAT_ZIP_INDEX, START_CENTRAL_DIR_SIG)

END_CENTRAL_DIR_INDEX(vec, IDAT_ZIP_INDEX) ==
    Search(vec, START_CENTRAL_DIR_INDEX(vec, IDAT_ZIP_INDEX), END_CENTRAL_DIR_SIG)

\* a variant of the loop below that searches the next local header from new_offset
\* instead of new_offset + 1
RECURSIVE Update_Record_Offsets_Same_Start(_, _, _, _)
Update_Record_Offsets_Same_Start(vec, zip_records, new_offset, central_local_index) ==
    IF zip_records = 0 THEN [ub |-> FALSE, vec |-> vec]
    ELSE IF new_offset + 1 > Len(vec) \/ central_local_index > Len(vec)
    THEN [ub |-> TRUE, vec |-> vec]
    ELSE LET next_offset == Search(vec, new_offset, ZIP_SIG)
             next_index == 45 + Search(vec, central_local_index, START_CENTRAL_DIR_SIG)
         IN  IF next_index >= Len(vec)
             THEN [ub |-> TRUE, vec |-> vec]
             ELSE Update_Record_Offsets_Same_Start(
                      Value_Updater(vec, next_index, Word(next_offset), 32, FALSE),
                      zip_records - 1, next_offset, next_index)

\* the while loop of lines 669-673, zip_records rounds left:
\* [ub |-> an access left the vector, vec |-> the vector after the writes]
RECURSIVE Update_Record_Offsets(_, _, _, _)
Update_Record_Offsets(vec, zip_records, new_offset, central_local_index) ==
    IF zip_records = 0 THEN [ub |-> FALSE, vec |-> vec]
    ELSE IF new_offset + 1 > Len(vec) \/ central_local_index > Len(vec)
    THEN [ub |-> TRUE, vec |-> vec]
    ELSE LET next_offset == Search(vec, new_offset + 1, ZIP_SIG)
             next_index == 45 + Search(vec, central_local_index, START_CENTRAL_DIR_SIG)
         IN  IF next_index >= Len(vec)
             THEN [ub |-> TRUE, vec |-> vec]
             ELSE Update_Record_Offsets(
                      Value_Updater(vec, next_index, Word(next_offset), 32, FALSE),
                      zip_records - 1, next_offset, next_index)

\* Image_Vec after Fix_Zip_Offset: [ub |-> an access left the vector, vec |-> the result]
Fix_Zip_Offset(vec, IDAT_ZIP_INDEX) ==
    LET start == START_CENTRAL_DIR_INDEX(vec, IDAT_ZIP_INDEX)
        end == END_CENTRAL_DIR_INDEX(vec, IDAT_ZIP_INDEX)
        zip_records_index == end + 11
        comment_length_index == end + 21
        end_central_start_index == end + 19
    IN  IF comment_length_index >= Len(vec)
        THEN [ub |-> TRUE, vec |-> vec]
        ELSE LET looped == Update_Record_Offsets(
                               vec, Read16_LE_At_Last(vec, zip_records_index),
                               IDAT_ZIP_INDEX, start - 1)
                 with_start == Value_Updater(looped.vec, end_central_start_index,
                                             Word(start), 32, FALSE)
                 comment_length == 16 + Read16_LE_At_Last(with_start, comment_length_index)
             IN  [ub |-> looped.ub,
                  vec |-> Value_Updater(with_start, comment_length_index,
                                        Word(comment_length), 16, FALSE)]

----------------------------------------------------------------------------
(* Combine_Vectors                                                         *)

FIRST_IDAT_INDEX == 33

\* a splice that puts the ZIP chunk in the place of the last 12 bytes of the image
Spliced_Image_Over_IEND(ivec, svec, zvec) ==
    LET with_script == Insert(ivec, FIRST_IDAT_INDEX, svec)
    IN  Slice(with_script, 0, Len(with_script) - 12) \o zvec

\* Image_Vec after the two inserts of lines 612 and 619
Spliced_Image(ivec, svec, zvec) ==
    LET with_script == Insert(ivec, FIRST_IDAT_INDEX, svec)
    IN  Insert(with_script, Len(with_script) - 12, zvec)

\* IDAT_ZIP_INDEX of line 621
Idat_Zip_Index(img_size, scr_size) == img_size + scr_size - 8

\* the CRC of the last IDAT chunk written with the flag as Fix_Zip_Offset left it
\* (line 666), that is without line 635
With_Idat_Zip_Crc_Flag_Not_Restored(vec, IDAT_ZIP_INDEX, zp_size) ==
    Value_Updater(vec, Len(vec) - 16, Crc(vec, IDAT_ZIP_INDEX, zp_size - 8), 32, FALSE)

\* Image_Vec after lines 627-638: the CRC of the last IDAT chunk written
With_Idat_Zip_Crc(vec, IDAT_ZIP_INDEX, zp_size) ==
    Value_Updater(vec, Len(vec) - 16, Crc(vec, IDAT_ZIP_INDEX, zp_size - 8), 32, TRUE)

\* Combine_Vectors with the CRC of the last IDAT chunk taken before the offsets are
\* fixed
Combine_Vectors_Crc_Before_Fix ==
    /\ pc = "Combine_Vectors"
    /\ LET IDAT_ZIP_INDEX == Idat_Zip_Index(image_size, script_size)
       IN  \E fixed \in {Fix_Zip_Offset(
                             With_Idat_Zip_Crc(Spliced_Image(Image_Vec, Script_Vec, Zip_Vec),
                                               IDAT_ZIP_INDEX, zip_size),
                             IDAT_ZIP_INDEX)} :
           IF fixed.ub
           THEN /\ Undefined
                /\ UNCHANGED <<Image_Vec, image_size, big_endian>>
           ELSE /\ Image_Vec' = fixed.vec
                /\ image_size' = Len(fixed.vec)
                /\ big_endian' = TRUE
                /\ pc' = "Write_Out_Polyglot_File"
                /\ UNCHANGED <<status, diag>>
    /\ UNCHANGED <<updater_call, argv, image_file, zip_file, Zip_Vec, Script_Vec, zip_size, script_size,
                   combined_file_size, prompted, args_linux, args_windows, out_file>>

Combine_Vectors ==
    /\ pc = "Combine_Vectors"
    /\ LET IDAT_ZIP_INDEX == Idat_Zip_Index(image_size, script_size)
       IN  \E fixed \in {Fix_Zip_Offset(Spliced_Image(Image_Vec, Script_Vec, Zip_Vec),
                                         IDAT_ZIP_INDEX)} :
           IF fixed.ub
           THEN /\ Undefined
                /\ UNCHANGED <<Image_Vec, image_size, big_endian>>
           ELSE /\ Image_Vec' = With_Idat_Zip_Crc(fixed.vec, IDAT_ZIP_INDEX, zip_size)
                /\ image_size' = Len(fixed.vec)
                /\ big_endian' = TRUE
                /\ pc' = "Write_Out_Polyglot_File"
                /\ UNCHANGED <<status, diag>>
    /\ UNCHANGED <<updater_call, argv, image_file, zip_file, Zip_Vec, Script_Vec, zip_size, script_size,
                   combined_file_size, prompted, args_linux, args_windows, out_file>>

----------------------------------------------------------------------------
(* Write_Out_Polyglot_File                                                 *)

Write_Out_Polyglot_File ==
    /\ pc = "Write_Out_Polyglot_File"
    /\ \E file_ofs \in BOOLEAN :
          IF ~file_ofs
          THEN /\ Fail("Write File Error: Unable to write to file")
               /\ UNCHANGED out_file
          ELSE /\ out_file' = Slice(Image_Vec, 0, image_size)
               /\ pc' = "exit"
               /\ status' = 0
               /\ UNCHANGED diag
    /\ UNCHANGED <<updater_call, argv, image_file, zip_file, Image_Vec, Zip_Vec, Script_Vec, image_size,
                   zip_size, script_size, combined_file_size, big_endian, prompted,
                   args_linux, args_windows>>

----------------------------------------------------------------------------
(* Reference formats: the CRC of the PNG specification, PNG and ZIP files  *)

\* c >> 1 on a word
Shift_Right_1(c) ==
    <<c[1] \div 2, (c[1] % 2) * 128 + (c[2] \div 2), (c[2] % 2) * 128 + (c[3] \div 2),
      (c[3] % 2) * 128 + (c[4] \div 2)>>

\* the generator polynomial of CRC-32, reflected: 0xEDB88320
CRC_POLY == <<\hED, \hB8, \h83, \h20>>

Word_Xor(a, b) == <<ByteXor(a[1], b[1]), ByteXor(a[2], b[2]), ByteXor(a[3], b[3]), ByteXor(a[4], b[4])>>

\* k rounds of: if the low bit is set, shift and subtract the polynomial, else shift
RECURSIVE Crc_Bits(_, _)
Crc_Bits(c, k) ==
    IF k = 0 THEN c
    ELSE Crc_Bits(IF c[4] % 2 = 1 THEN Word_Xor(Shift_Right_1(c), CRC_POLY)
                                  ELSE Shift_Right_1(c),
                  k - 1)

\* the register after the bytes bytes[from+1 .. from+len], bit by bit
RECURSIVE Png_Crc_Register(_, _, _, _)
Png_Crc_Register(c, bytes, from, len) ==
    IF len = 0 THEN c
    ELSE IF len = 1
    THEN Crc_Bits(<<c[1], c[2], c[3], ByteXor(c[4], bytes[from + 1])>>, 8)
    ELSE LET half == len \div 2
             mid == Png_Crc_Register(c, bytes, from, half)
         IN  IF mid = mid THEN Png_Crc_Register(mid, bytes, from + half, len - half) ELSE mid

\* the CRC-32 of a byte sequence as the PNG specification defines it (ISO 3309)
Png_Crc32(bytes) ==
    Word_Xor(Png_Crc_Register(<<255, 255, 255, 255>>, bytes, 0, Len(bytes)),
             <<255, 255, 255, 255>>)

\* a PNG chunk: length, type, data, CRC over type and data
Png_Chunk(type, data) == Word(Len(data)) \o type \o data \o Png_Crc32(type \o data)

PNG_SIGNATURE == <<\h89, \h50, \h4E, \h47, \h0D, \h0A, \h1A, \h0A>>
IHDR_TYPE == <<\h49, \h48, \h44, \h52>>
IEND_TYPE == <<\h49, \h45, \h4E, \h44>>
GAMA_TYPE == <<\h67, \h41, \h4D, \h41>>
TEXT_TYPE == <<\h74, \h45, \h58, \h74>>

\* the IHDR chunk of a width x height image of colour type ct, 8 bits deep
Ihdr_Chunk(width, height, ct) ==
    Png_Chunk(IHDR_TYPE, Word(width) \o Word(height) \o <<8, ct, 0, 0, 0>>)

\* a PNG file: signature, IHDR, the chunks of middle, IEND
Png_File(width, height, ct, middle) ==
    PNG_SIGNATURE \o Ihdr_Chunk(width, height, ct) \o middle \o Png_Chunk(IEND_TYPE, <<>>)

\* little-endian fields of a ZIP record
LE16(n) == <<n % 256, (n \div 256) % 256>>
LE32(n) == <<n % 256, (n \div 256) % 256, (n \div 65536) % 256, (n \div 16777216) % 256>>
Reversed(w) == <<w[4], w[3], w[2], w[1]>>

\* a local file header with its (stored) file data
Local_Record(name, data) ==
    ZIP_SIG \o LE16(20) \o LE16(0) \o LE16(0) \o LE16(0) \o LE16(0)
        \o Reversed(Png_Crc32(data)) \o LE32(Len(data)) \o LE32(Len(data))
        \o LE16(Len(name)) \o LE16(0) \o name \o data

\* a central-directory entry for a local record at offset
Central_Record(name, data, offset) ==
    START_CENTRAL_DIR_SIG \o LE16(20) \o LE16(20) \o LE16(0) \o LE16(0) \o LE16(0) \o LE16(0)
        \o Reversed(Png_Crc32(data)) \o LE32(Len(data)) \o LE32(Len(data))
        \o LE16(Len(name)) \o LE16(0) \o LE16(0) \o LE16(0) \o LE16(0) \o LE32(0)
        \o LE32(offset) \o name

\* the end-of-central-directory record
End_Record(entries, cd_size, cd_offset, comment) ==
    END_CENTRAL_DIR_SIG \o LE16(0) \o LE16(0) \o LE16(entries) \o LE16(entries)
        \o LE32(cd_size) \o LE32(cd_offset) \o LE16(Len(comment)) \o comment

RECURSIVE Concat(_)
Concat(seqs) == IF seqs = <<>> THEN <<>> ELSE Head(seqs) \o Concat(Tail(seqs))

\* offset of the i-th local record of files (a sequence of [name, data] records)
Local_Offset(files, i) ==
    Len(Concat([j \in 1..(i - 1) |-> Local_Record(files[j].name, files[j].data)]))

\* a ZIP archive: the local records of files in order, the central directory listing
\* them in the order cd_order (a permutation of 1..Len(files)), the end record
Zip_File(files, cd_order, comment) ==
    LET locals == Concat([j \in 1..Len(files) |-> Local_Record(files[j].name, files[j].data)])
        central == Concat([k \in 1..Len(cd_order) |->
                        Central_Record(files[cd_order[k]].name, files[cd_order[k]].data,
                                       Local_Offset(files, cd_order[k]))])
    IN  locals \o central \o End_Record(Len(files), Len(central), Len(locals), comment)

----------------------------------------------------------------------------
(* The input files of the runs                                             *)

\* bytes of IDAT data in an image, bytes of file data in a ZIP entry
IdatLen == 12
FileLen == 5

Idat_Data == [i \in 1..IdatLen |-> i]
File_Data == [i \in 1..FileLen |-> 96 + i]

\* IDAT data that holds the bytes of a chunk header: length 1, type IDAT
Idat_Data_With_Sig == <<0, 0, 0, 1>> \o IDAT_SIG \o [i \in 1..(IdatLen - 8) |-> i]

\* file data that holds a local-file or a central-directory signature
File_Data_With_Local_Sig == ZIP_SIG \o [i \in 1..(FileLen - 4) |-> 96 + i]
File_Data_With_Central_Sig == START_CENTRAL_DIR_SIG \o [i \in 1..(FileLen - 4) |-> 96 + i]

Plte_Chunk == Png_Chunk(PLTE_SIG, <<255, 0, 0, 0, 255, 0>>)
Idat_Chunk == Png_Chunk(IDAT_SIG, Idat_Data)
Gama_Chunk == Png_Chunk(GAMA_TYPE, <<0, 0, \hB1, \h8F>>)
Text_Chunk == Png_Chunk(TEXT_TYPE, <<\h6B, 0, \h76>>)

\* a chunk whose stored CRC is wrong in its last byte
Corrupt_Crc(chunk) == [chunk EXCEPT ![Len(chunk)] = (chunk[Len(chunk)] + 1) % 256]

\* a width x height image of colour type ct: PLTE for colour type 3, one IDAT
Plain_Image(width, height, ct) ==
    Png_File(width, height, ct, (IF ct = 3 THEN Plte_Chunk ELSE <<>>) \o Idat_Chunk)

Base_Image == Plain_Image(100, 100, 2)

\* widths and heights around the limits of lines 179-181, and two that need more
\* than 16 bits
Dim_Values ==
    {MIN_DIMS - 1, MIN_DIMS, MAX_TRUECOLOR_DIMS, MAX_TRUECOLOR_DIMS + 1,
     MAX_INDEXED_COLOR_DIMS, MAX_INDEXED_COLOR_DIMS + 1, 65536 + 100, 65536 + 900}
Dim_Pairs == {d \in Dim_Values \X Dim_Values : d[1] = d[2]}
                 \cup (Dim_Values \X {100}) \cup ({100} \X Dim_Values)
Color_Types == {0, 2, 3, 4, 6}
Dim_Images == {Plain_Image(d[1], d[2], ct) : d \in Dim_Pairs, ct \in Color_Types}

Shape_Images ==
    { Base_Image,
      \* truecolor with alpha, ancillary chunks, two IDAT chunks
      Png_File(100, 100, 6, Gama_Chunk \o Idat_Chunk \o Idat_Chunk \o Text_Chunk),
      \* indexed colour with and without its palette
      Png_File(100, 100, 3, Gama_Chunk \o Plte_Chunk \o Idat_Chunk),
      Png_File(100, 100, 3, Idat_Chunk),
      \* truecolor with a suggested palette
      Png_File(100, 100, 2, Plte_Chunk \o Idat_Chunk),
      \* IDAT data that contains the bytes of a chunk header
      Png_File(100, 100, 2, Png_Chunk(IDAT_SIG, Idat_Data_With_Sig)),
      \* wrong CRC in the first IDAT chunk, wrong CRC in IHDR
      Png_File(100, 100, 2, Corrupt_Crc(Idat_Chunk)),
      PNG_SIGNATURE \o Corrupt_Crc(Ihdr_Chunk(100, 100, 2)) \o Idat_Chunk
          \o Png_Chunk(IEND_TYPE, <<>>),
      \* not a PNG, a forbidden character in IHDR, no IDAT chunk
      [Base_Image EXCEPT ![2] = \h51],
      Plain_Image(100, 290, 2),
      Png_File(100, 100, 2, Png_Chunk(TEXT_TYPE, Idat_Data)) }

\* an image of exactly n bytes, n >= 57
Image_Of_Size(n) == Png_File(100, 100, 2, Png_Chunk(IDAT_SIG, [i \in 1..(n - 57) |-> i]))

\* the names of first entries: a prefix followed by three characters, which are an
\* extension key of App_Vec or not
Name_Prefixes == {<<\h61, \h2E>>, <<\h61>>, <<\h2E>>, <<\h6D, \h79, \h2E, \h61>>}   \* "a."  "a"  "."  "my.a"
Extension_Keys == {App_Vec_Init[k] : k \in 1..19}
Other_Endings ==
    {<<\h74, \h78, \h74>>, <<\h2E, \h73, \h68>>, <<\h69, \h72, \h2F>>, <<\h2E, \h64, \h2F>>}  \* "txt" ".sh" "ir/" ".d/"
Entry_Names == {p \o e : p \in Name_Prefixes, e \in Extension_Keys \cup Other_Endings}

Name_Txt == <<\h61, \h2E, \h74, \h78, \h74>>      \* a.txt
Name_Second == <<\h62, \h2E, \h74, \h78, \h74>>   \* b.txt
Name_Short == <<\h61, \h62, \h63>>                \* abc
Zip_Comment == <<\h68, \h69>>

File(name, data) == [name |-> name, data |-> data]

One_Entry_Zips == {Zip_File(<<File(n, File_Data)>>, <<1>>, <<>>) : n \in Entry_Names}

Base_Zip == Zip_File(<<File(Name_Txt, File_Data)>>, <<1>>, <<>>)

Shape_Zips ==
    { \* two entries, the central directory in the order of the local headers or not
      Zip_File(<<File(Name_Txt, File_Data), File(Name_Second, File_Data)>>, <<1, 2>>, <<>>),
      Zip_File(<<File(Name_Txt, File_Data), File(Name_Second, File_Data)>>, <<2, 1>>, <<>>),
      \* file data that contains a ZIP signature
      Zip_File(<<File(Name_Txt, File_Data_With_Local_Sig)>>, <<1>>, <<>>),
      Zip_File(<<File(Name_Txt, File_Data_With_Central_Sig)>>, <<1>>, <<>>),
      \* an archive comment, a first name of three characters
      Zip_File(<<File(Name_Txt, File_Data)>>, <<1>>, Zip_Comment),
      Zip_File(<<File(Name_Short, File_Data \o File_Data)>>, <<1>>, <<>>),
      \* not a ZIP, a ZIP cut before its central directory
      [Base_Zip EXCEPT ![1] = \h51],
      Local_Record(Name_Txt, File_Data \o File_Data) }

\* an archive without entries, of exactly n bytes, n >= 22
Zip_Of_Size(n) == End_Record(0, 0, 0, [i \in 1..(n - 22) |-> \h63])

\* pairs of files at the limits of the size check of line 120
Size_Inputs ==
    {<<Image_Of_Size(MIN_IMAGE_SIZE + i), Zip_Of_Size(MIN_ZIP_SIZE + z)>> :
        i \in {-1, 0, 1}, z \in {-1, 0, 1}}

Bad_Signature_Zip == [Base_Zip EXCEPT ![1] = \h51]
Short_Name_Zip == Zip_File(<<File(Name_Short, File_Data \o File_Data)>>, <<1>>, <<>>)

\* pairs of files that fail two checks at once
Order_Inputs ==
    { \* a forbidden byte in a height that is out of range: 15109 = 0x3B05 puts 0x3B
      \* at index 22 of the file
      <<Plain_Image(100, 15109, 2), Base_Zip>>,
      \* a wrong signature and a forbidden byte
      <<[Plain_Image(100, 290, 2) EXCEPT ![2] = \h51], Base_Zip>>,
      \* a forbidden byte and an unsupported colour type
      <<Plain_Image(100, 290, 4), Base_Zip>>,
      \* a width out of range and a wrong CRC in the first IDAT chunk
      <<Png_File(50, 100, 2, Corrupt_Crc(Idat_Chunk)), Base_Zip>>,
      \* a wrong CRC in the first IDAT chunk and no palette
      <<Png_File(100, 100, 3, Corrupt_Crc(Idat_Chunk)), Base_Zip>>,
      \* no palette and not a ZIP
      <<Png_File(100, 100, 3, Idat_Chunk), Bad_Signature_Zip>>,
      \* a wrong CRC in the first IDAT chunk and a short first name
      <<Png_File(100, 100, 2, Corrupt_Crc(Idat_Chunk)), Short_Name_Zip>>,
      \* not a ZIP and a short first name
      <<Base_Image, [Short_Name_Zip EXCEPT ![1] = \h51]>>,
      \* files that are too small and not a PNG, not a ZIP
      <<[i \in 1..60 |-> 0], Base_Zip>>,
      <<Base_Image, [i \in 1..30 |-> 0]>> }

Inputs ==
    ((Shape_Images \cup Dim_Images) \X {Base_Zip})
        \cup ({Base_Image} \X (One_Entry_Zips \cup Shape_Zips))
        \cup Size_Inputs
        \cup Order_Inputs

----------------------------------------------------------------------------
(* The run of pdvzip <cover_image> <zip_file>                              *)

\* command lines: the two file names, no argument, --info, one name, three names, a
\* wrong or missing extension, an unsupported character, names of three and two bytes
Arg_Image == <<\h61, \h2E, \h70, \h6E, \h67>>     \* a.png
Arg_Zip == <<\h62, \h2E, \h7A, \h69, \h70>>       \* b.zip
Valid_Args == <<Arg_Image, Arg_Zip>>
Arg_Vectors ==
    { Valid_Args,
      <<>>,
      <<INFO_ARG>>,
      <<Arg_Image>>,
      <<Arg_Image, Arg_Zip, Arg_Zip>>,
      <<INFO_ARG, Arg_Zip>>,
      <<Arg_Zip, Arg_Image>>,
      <<Arg_Image, <<\h62, \h2E, \h72, \h61, \h72>>>>,             \* a.png b.rar
      <<<<\h61, \h24, \h2E, \h70, \h6E, \h67>>, Arg_Zip>>,         \* a$.png b.zip
      <<Arg_Image, <<\h62, \h20, \h63, \h2F, \h64, \h2E, \h7A, \h69, \h70>>>>,   \* a.png "b c/d.zip"
      <<PNG_EXT, ZIP_EXT>>,                                        \* png zip
      <<<<\h6E, \h67>>, ZIP_EXT>> }                                \* ng zip

\* every pair of files under the two file names, one pair under the other command lines
Command_Lines ==
    (Inputs \X {Valid_Args}) \cup ({<<Base_Image, Base_Zip>>} \X Arg_Vectors)

Init ==
    /\ \E cl \in Command_Lines :
          /\ image_file = cl[1][1]
          /\ zip_file = cl[1][2]
          /\ argv = cl[2]
    /\ pc = "main"
    /\ status = 0
    /\ diag = ""
    /\ Image_Vec = <<>>
    /\ Zip_Vec = <<>>
    /\ Script_Vec = <<>>
    /\ image_size = 0
    /\ zip_size = 0
    /\ script_size = 0
    /\ combined_file_size = 0
    /\ big_endian = TRUE
    /\ prompted = FALSE
    /\ args_linux = <<>>
    /\ args_windows = <<>>
    /\ out_file = <<>>
    /\ updater_call = <<>>

Next ==
    \/ Main
    \/ Open_Files
    \/ Check_Image_File
    \/ Erase_Image_Chunks
    \/ Check_Zip_File
    \/ Complete_Extraction_Script
    \/ Combine_Vectors
    \/ Write_Out_Polyglot_File

Spec == Init /\ [][Next]_vars

----------------------------------------------------------------------------
(* The same run on long first names and long argument lines, which take the *)
(* extraction script up to and over MAX_SCRIPT_SIZE                         *)

MaxLineLen == 460
MaxNameLen == 236
NameSpan == 40

\* argument lines "", "x", "xx", ... at one of the two prompts, the other left empty
Line_Of_Length(n) == [i \in 1..n |-> \h78]
Typed_Long ==
    {<<Line_Of_Length(n), <<>>>> : n \in 0..MaxLineLen}
        \cup {<<<<>>, Line_Of_Length(n)>> : n \in 0..MaxLineLen}

Name_Py == <<\h61, \h2E, \h70, \h79>>     \* a.py
Name_Of_Length(n) == [i \in 1..n |-> \h61] \o <<\h2E, \h70, \h64, \h66>>   \* aa...a.pdf

Long_Zips ==
    {Zip_File(<<File(n, File_Data)>>, <<1>>, <<>>) :
        n \in {Name_Py} \cup {Name_Of_Length(MaxNameLen - k) : k \in 0..NameSpan}}

\* archives with the longest comments: 65535 is the largest value of the 16-bit
\* comment-length field, and 65535 - 16 the largest to which 16 can be added in it
Comment_Of_Length(n) == [i \in 1..n |-> \h63]
Long_Comment_Zips ==
    {Zip_File(<<File(Name_Txt, File_Data)>>, <<1>>, Comment_Of_Length(n)) :
        n \in {65535 - 16, 65535 - 15, 65535}}

Inputs_Long ==
    ({Base_Image} \X (Long_Zips \cup Long_Comment_Zips \cup Shape_Zips))
        \cup (Shape_Images \X {Base_Zip})

Init_Long ==
    /\ \E in \in Inputs_Long : image_file = in[1] /\ zip_file = in[2]
    /\ argv = Valid_Args
    /\ pc = "main"
    /\ status = 0
    /\ diag = ""
    /\ Image_Vec = <<>>
    /\ Zip_Vec = <<>>
    /\ Script_Vec = <<>>
    /\ image_size = 0
    /\ zip_size = 0
    /\ script_size = 0
    /\ combined_file_size = 0
    /\ big_endian = TRUE
    /\ prompted = FALSE
    /\ args_linux = <<>>
    /\ args_windows = <<>>
    /\ out_file = <<>>
    /\ updater_call = <<>>

Complete_Extraction_Script_Long == Complete_Extraction_Script_Reading(Typed_Long)

Next_Long ==
    \/ Main
    \/ Open_Files
    \/ Check_Image_File
    \/ Erase_Image_Chunks
    \/ Check_Zip_File
    \/ Complete_Extraction_Script_Long
    \/ Combine_Vectors
    \/ Write_Out_Polyglot_File

Spec_Long == Init_Long /\ [][Next_Long]_vars

----------------------------------------------------------------------------
(* The same run on images with and without a palette, the palette before or *)
(* after the image data, and with the bytes "PLTE" in the data of a chunk   *)

PRIVATE_TYPE == <<\h70, \h72, \h56, \h74>>     \* prVt, an ancillary private chunk

\* a private chunk whose data holds the bytes of a chunk header: length 1, type PLTE
Private_Chunk_With_Plte_Sig ==
    Png_Chunk(PRIVATE_TYPE, <<0, 0, 0, 1>> \o PLTE_SIG \o <<1, 2, 3, 4, 5>>)

Palette_Middles ==
    { Plte_Chunk \o Idat_Chunk,
      Idat_Chunk,
      Idat_Chunk \o Plte_Chunk,
      Gama_Chunk \o Plte_Chunk \o Idat_Chunk \o Idat_Chunk \o Text_Chunk,
      Private_Chunk_With_Plte_Sig \o Plte_Chunk \o Idat_Chunk,
      Private_Chunk_With_Plte_Sig \o Idat_Chunk }

Palette_Images == {Png_File(100, 100, ct, mid) : ct \in {2, 3, 6}, mid \in Palette_Middles}

Init_Palette ==
    /\ \E image \in Palette_Images : image_file = image
    /\ zip_file = Base_Zip
    /\ argv = Valid_Args
    /\ pc = "main"
    /\ status = 0
    /\ diag = ""
    /\ Image_Vec = <<>>
    /\ Zip_Vec = <<>>
    /\ Script_Vec = <<>>
    /\ image_size = 0
    /\ zip_size = 0
    /\ script_size = 0
    /\ combined_file_size = 0
    /\ big_endian = TRUE
    /\ prompted = FALSE
    /\ args_linux = <<>>
    /\ args_windows = <<>>
    /\ out_file = <<>>
    /\ updater_call = <<>>

Spec_Palette == Init_Palette /\ [][Next]_vars

----------------------------------------------------------------------------
(* The offset fixer on archives with comments of every length: the run is   *)
(* taken up where Combine_Vectors is entered, with the three vectors as the *)
(* steps before it leave them for an archive of one file a.txt              *)

MaxCommentLen == 40

Comment_Zips ==
    {Zip_File(<<File(Name_Txt, File_Data)>>, <<1>>, Comment_Of_Length(n)) :
        n \in 0..MaxCommentLen}
        \cup Long_Comment_Zips

\* the state in which a run on image and zip enters Combine_Vectors (line 602) when
\* all checks have passed and no argument line was asked for
Combine_Entry(image, zip) ==
    LET zvec == Wrapped_Zip(zip, TRUE)
        ivec == Pruned_Image(image)
        svec == Script_With_Crc(Sized_Script(Composed_Script(zvec, <<>>, <<>>), TRUE), TRUE)
    IN  [Image_Vec |-> ivec, Zip_Vec |-> zvec, Script_Vec |-> svec,
         image_size |-> Len(ivec), zip_size |-> Len(zvec), script_size |-> Len(svec),
         combined_file_size |-> Len(svec) + Len(ivec) + Len(zvec)]

Init_Fixer ==
    /\ \E zip \in Comment_Zips :
          /\ image_file = Base_Image
          /\ zip_file = zip
          /\ \E entry \in {Combine_Entry(Base_Image, zip)} :
                /\ Image_Vec = entry.Image_Vec
                /\ Zip_Vec = entry.Zip_Vec
                /\ Script_Vec = entry.Script_Vec
                /\ image_size = entry.image_size
                /\ zip_size = entry.zip_size
                /\ script_size = entry.script_size
                /\ combined_file_size = entry.combined_file_size
    /\ argv = Valid_Args
    /\ pc = "Combine_Vectors"
    /\ status = 0
    /\ diag = ""
    /\ big_endian = TRUE
    /\ prompted = FALSE
    /\ args_linux = <<>>
    /\ args_windows = <<>>
    /\ out_file = <<>>
    /\ updater_call = <<>>

Next_Fixer ==
    \/ Combine_Vectors
    \/ Write_Out_Polyglot_File

Spec_Fixer == Init_Fixer /\ [][Next_Fixer]_vars

\* the runs of Spec and Spec_Long on a command line of two names enter
\* Combine_Vectors in the state Combine_Entry gives, for every archive of
\* Comment_Zips among their inputs
Combine_Entry_Reached ==
    (/\ pc = "Combine_Vectors"
     /\ argv = Valid_Args /\ image_file = Base_Image /\ zip_file \in Comment_Zips)
        => \E entry \in {Combine_Entry(image_file, zip_file)} :
              /\ Image_Vec = entry.Image_Vec
              /\ Zip_Vec = entry.Zip_Vec
              /\ Script_Vec = entry.Script_Vec
              /\ image_size = entry.image_size
              /\ zip_size = entry.zip_size
              /\ script_size = entry.script_size
              /\ combined_file_size = entry.combined_file_size
              /\ status = 0 /\ diag = "" /\ big_endian = TRUE
              /\ prompted = FALSE /\ args_linux = <<>> /\ args_windows = <<>>
              /\ out_file = <<>>
              /\ updater_call = <<>>

----------------------------------------------------------------------------
(* Reading the files as their formats define them                          *)

\* the run ended with status 0 after Write_Out_Polyglot_File wrote the output
Built == pc = "exit" /\ status = 0 /\ out_file # <<>>

\* little-endian and big-endian fields; a 32-bit value of 2^30 or more reads as SIZE_CAP
Ref_LE16(f, i) == At(f, i) + 256 * At(f, i + 1)
Ref_LE32(f, i) ==
    IF At(f, i + 3) >= 64 THEN SIZE_CAP
    ELSE At(f, i) + 256 * (At(f, i + 1) + 256 * (At(f, i + 2) + 256 * At(f, i + 3)))
Ref_BE32(f, i) ==
    IF At(f, i) >= 64 THEN SIZE_CAP
    ELSE At(f, i + 3) + 256 * (At(f, i + 2) + 256 * (At(f, i + 1) + 256 * At(f, i)))

\* all indices of f where pat occurs
Occurrences(f, pat) == {i \in 0..(Len(f) - Len(pat)) : MatchAt(f, i, pat)}

Max(S) == CHOOSE x \in S : \A y \in S : y <= x

\* index of the end-of-central-directory record, found from the end of the file; -1 if none
Zip_End_Index(f) ==
    LET hits == {i \in Occurrences(f, END_CENTRAL_DIR_SIG) : i + 22 <= Len(f)}
    IN  IF hits = {} THEN -1 ELSE Max(hits)

\* the indices of n consecutive central-directory entries from pos on; -1 ends the
\* sequence where no entry can be read
RECURSIVE Central_Walk(_, _, _)
Central_Walk(f, pos, n) ==
    IF n = 0 THEN <<>>
    ELSE IF ~MatchAt(f, pos, START_CENTRAL_DIR_SIG) \/ pos + 46 > Len(f) THEN <<-1>>
    ELSE <<pos>> \o Central_Walk(f, pos + 46 + Ref_LE16(f, pos + 28) + Ref_LE16(f, pos + 30)
                                         + Ref_LE16(f, pos + 32), n - 1)

\* the indices of the central-directory entries the end record announces
Central_Positions(f) ==
    LET e == Zip_End_Index(f)
    IN  IF e < 0 THEN <<-1>> ELSE Central_Walk(f, Ref_LE32(f, e + 16), Ref_LE16(f, e + 10))

\* the local record (header, name, extra field, file data) the entry at pos points at,
\* <<>> if there is no local header there
Local_Record_Of(f, pos) ==
    LET off == Ref_LE32(f, pos + 42)
    IN  IF ~MatchAt(f, off, ZIP_SIG) \/ off + 30 > Len(f) THEN <<>>
        ELSE LET end == off + 30 + Ref_LE16(f, off + 26) + Ref_LE16(f, off + 28)
                            + Ref_LE32(f, pos + 20)
             IN  IF end > Len(f) THEN <<>> ELSE Slice(f, off, end)

\* what a ZIP reader lists: for each central-directory entry its name and local record
Zip_Listing(f) ==
    LET cd == Central_Positions(f)
    IN  [k \in 1..Len(cd) |->
            IF cd[k] < 0 \/ cd[k] + 46 + Ref_LE16(f, cd[k] + 28) > Len(f)
            THEN [name |-> <<>>, local |-> <<>>]
            ELSE [name |-> Slice(f, cd[k] + 46, cd[k] + 46 + Ref_LE16(f, cd[k] + 28)),
                  local |-> Local_Record_Of(f, cd[k])]]

Zip_Readable(f) == \A k \in 1..Len(Zip_Listing(f)) : Zip_Listing(f)[k].local # <<>>

\* the signatures 50 4B 03 04 and 50 4B 01 02 occur in the archive only where its
\* central directory places a local header or an entry
Signatures_At_Records(f) ==
    LET cd == Central_Positions(f)
    IN  /\ \A k \in 1..Len(cd) : cd[k] >= 0
        /\ Occurrences(f, START_CENTRAL_DIR_SIG) = {cd[k] : k \in 1..Len(cd)}
        /\ Occurrences(f, ZIP_SIG) = {Ref_LE32(f, cd[k] + 42) : k \in 1..Len(cd)}

\* the chunks of a PNG file from index pos on, as [type, at, size] records;
\* a record of size 0 ends the sequence where the bytes are not a chunk
RECURSIVE Png_Chunks(_, _)
Png_Chunks(f, pos) ==
    IF pos >= Len(f) THEN <<>>
    ELSE IF pos + 12 > Len(f) \/ pos + 12 + Ref_BE32(f, pos) > Len(f)
    THEN <<[type |-> <<>>, at |-> pos, size |-> 0]>>
    ELSE <<[type |-> Slice(f, pos + 4, pos + 8), at |-> pos, size |-> 12 + Ref_BE32(f, pos)]>>
             \o Png_Chunks(f, pos + 12 + Ref_BE32(f, pos))

\* whether the chunk c of f stores the CRC of its type and data
Chunk_Crc_Valid(f, c) ==
    /\ c.size >= 12
    /\ Slice(f, c.at + c.size - 4, c.at + c.size) = Png_Crc32(Slice(f, c.at + 4, c.at + c.size - 4))

\* f is the PNG signature followed by chunks that tile it, each with a correct CRC
Png_Well_Formed(f) ==
    /\ Len(f) >= 8
    /\ Slice(f, 0, 8) = PNG_SIGNATURE
    /\ \A k \in 1..Len(Png_Chunks(f, 8)) : Chunk_Crc_Valid(f, Png_Chunks(f, 8)[k])

\* the bytes of the chunks of f that the output keeps: PLTE for colour type 3, every IDAT
Kept_Chunk_Bytes(f) ==
    LET cs == Png_Chunks(f, 8)
    IN  Concat([k \in 1..Len(cs) |->
            IF \/ cs[k].type = IDAT_SIG
               \/ cs[k].type = PLTE_SIG /\ At(f, 25) = PNG_INDEXED_COLOR
            THEN Slice(f, cs[k].at, cs[k].at + cs[k].size) ELSE <<>>])

----------------------------------------------------------------------------
(* C1: ZIP soundness                                                       *)

\* C1: for every successful build on a readable input archive, reading the output as
\* a ZIP (end record, central directory, local header at each rewritten offset) lists
\* the entries of the input: the same names in the same order, each with a local
\* record byte-identical to the one the input lists for it.  Stated for the archives
\* the program's documentation admits, those without signature bytes in file data,
\* whatever the order of their central directory.
C1_Zip_Soundness ==
    (Built /\ Zip_Readable(zip_file) /\ Signatures_At_Records(zip_file))
        => Zip_Listing(out_file) = Zip_Listing(zip_file)

----------------------------------------------------------------------------
(* C2: chunk CRCs of the output                                            *)

\* C2: for every successful build on a well-formed input PNG, the output is the PNG
\* signature followed by chunks that tile the file, each storing the PNG CRC-32 of its
\* type and data.
C2_Chunk_Crcs_Valid == (Built /\ Png_Well_Formed(image_file)) => Png_Well_Formed(out_file)

----------------------------------------------------------------------------
(* C3: layout of the output                                                *)

IEND_CHUNK == <<0, 0, 0, 0, \h49, \h45, \h4E, \h44, \hAE, \h42, \h60, \h82>>
ICCP_TYPE == <<\h69, \h43, \h43, \h50>>

\* C3: for every successful build the output is, in this order: the first 33 input
\* bytes, the iCCP script chunk (at offset 33), the input's PLTE chunk when the colour
\* type is 3, the input's IDAT chunks in input order, one IDAT chunk the size of the
\* ZIP (its type field 4 bytes after the end of the kept chunks, which is pruned image
\* size + script size - 8), and the 12 bytes of IEND.
C3_Output_Layout ==
    Built =>
        LET kept == Kept_Chunk_Bytes(image_file)
            z == 33 + script_size + Len(kept)
        IN  /\ Len(out_file) = z + 12 + Len(zip_file) + 12
            /\ Slice(out_file, 0, 33) = Slice(image_file, 0, 33)
            /\ Slice(out_file, 33, 33 + script_size) = Script_Vec
            /\ Slice(out_file, 37, 41) = ICCP_TYPE
            /\ Slice(out_file, 33 + script_size, z) = kept
            /\ Ref_BE32(out_file, z) = Len(zip_file)
            /\ Slice(out_file, z + 4, z + 8) = IDAT_SIG
            /\ Slice(out_file, Len(out_file) - 12, Len(out_file)) = IEND_CHUNK

----------------------------------------------------------------------------
(* C4: offsets written by Fix_Zip_Offset                                   *)

\* the run has left Combine_Vectors with the offsets fixed
Offsets_Fixed == pc = "Write_Out_Polyglot_File"

\* index of the type field of the last IDAT chunk of Image_Vec once the ZIP is spliced
\* in (IDAT_ZIP_INDEX), and of the first byte of the archive
Zip_Chunk_Type_Index == Len(Image_Vec) - 12 - zip_size + 4
Zip_Base == Zip_Chunk_Type_Index + 4

\* the i-th index after from where pat occurs in f (Len(f) if there are fewer)
Nth_Occurrence(f, from, pat, i) ==
    LET later == {p \in Occurrences(f, pat) : p > from}
        ith == {p \in later : Cardinality({q \in later : q < p}) = i - 1}
    IN  IF ith = {} THEN Len(f) ELSE CHOOSE p \in ith : TRUE

\* the statement of offset consistency about the fixed buffer: entry by entry of the
\* input's central directory, and for the end record
Offsets_Consistent ==
    LET cd == Central_Positions(zip_file)
        first_central == {p \in Occurrences(Image_Vec, START_CENTRAL_DIR_SIG) :
                              p > Zip_Chunk_Type_Index}
    IN  /\ \A i \in 1..Len(cd) :
              Ref_LE32(Image_Vec, Zip_Base + cd[i] + 42)
                  = Nth_Occurrence(Image_Vec, Zip_Chunk_Type_Index, ZIP_SIG, i)
        /\ first_central # {}
        /\ Ref_LE32(Image_Vec, Zip_Base + Zip_End_Index(zip_file) + 16) = Min(first_central)

----------------------------------------------------------------------------
(* C5-C8: the launcher of the composed script                              *)

\* "xdg-open "
TXT_XDG_OPEN ==
    <<\h78, \h64, \h67, \h2D, \h6F, \h70, \h65, \h6E, \h20>>
\* start /b ""
TXT_START_B ==
    <<\h73, \h74, \h61, \h72, \h74, \h20, \h2F, \h62, \h20, \h22, \h22>>
\* "powershell;Invoke-Item "
TXT_INVOKE_ITEM ==
    <<\h70, \h6F, \h77, \h65, \h72, \h73, \h68, \h65, \h6C, \h6C, \h3B, \h49, \h6E, \h76, \h6F,
     \h6B, \h65, \h2D, \h49, \h74, \h65, \h6D, \h20>>
\* "vlc --play-and-exit --no-video-title-show "
TXT_VLC ==
    <<\h76, \h6C, \h63, \h20, \h2D, \h2D, \h70, \h6C, \h61, \h79, \h2D, \h61, \h6E, \h64, \h2D,
     \h65, \h78, \h69, \h74, \h20, \h2D, \h2D, \h6E, \h6F, \h2D, \h76, \h69, \h64, \h65, \h6F,
     \h2D, \h74, \h69, \h74, \h6C, \h65, \h2D, \h73, \h68, \h6F, \h77, \h20>>
\* " &> /dev/null"
TXT_DEV_NULL ==
    <<\h20, \h26, \h3E, \h20, \h2F, \h64, \h65, \h76, \h2F, \h6E, \h75, \h6C, \h6C>>
\* "evince "
TXT_EVINCE ==
    <<\h65, \h76, \h69, \h6E, \h63, \h65, \h20>>
\* "python3 "
TXT_PYTHON3 ==
    <<\h70, \h79, \h74, \h68, \h6F, \h6E, \h33, \h20>>
\* "pwsh "
TXT_PWSH ==
    <<\h70, \h77, \h73, \h68, \h20>>
\* powershell
TXT_POWERSHELL ==
    <<\h70, \h6F, \h77, \h65, \h72, \h73, \h68, \h65, \h6C, \h6C>>
\* "chmod +x "
TXT_CHMOD ==
    <<\h63, \h68, \h6D, \h6F, \h64, \h20, \h2B, \h78, \h20>>
\* ;./
TXT_DOT_SLASH ==
    <<\h3B, \h2E, \h2F>>
\* .\
TXT_DOT_BACKSLASH ==
    <<\h2E, \h5C>>

CRLF == <<\h0D, \h0A>>
SPACE == <<\h20>>

Contains(f, pat) == Occurrences(f, pat) # {}

\* the name in double quotes, as the script template places it
Quoted(name) == <<\h22>> \o name \o <<\h22>>

\* the script up to its first line end is what a POSIX shell runs, the rest is what
\* the Windows command interpreter runs
Posix_Segment(script) == Slice(script, 0, Search(script, 0, CRLF))
Windows_Segment(script) == Slice(script, Search(script, 0, CRLF), Len(script))

\* the segment runs cmd on the quoted name
Launches(segment, cmd, name) ==
    \/ Contains(segment, cmd \o Quoted(name))
    \/ Contains(segment, cmd \o SPACE \o Quoted(name))

\* the name and the last three characters of the first entry of the archive on disk
Entry_Name(f) == Slice(f, 30, 30 + Ref_LE16(f, 26))
Entry_Ext(f) == Slice(Entry_Name(f), Len(Entry_Name(f)) - 3, Len(Entry_Name(f)))

\* the archive starts with a local header whose (non-empty) name lies inside the file
Has_First_Entry(f) ==
    /\ MatchAt(f, 0, ZIP_SIG)
    /\ Len(f) >= 30
    /\ Ref_LE16(f, 26) > 0
    /\ 30 + Ref_LE16(f, 26) <= Len(f)

\* Complete_Extraction_Script has composed the script for the archive
Script_Composed == Script_Vec # <<>>

Ends_In_Slash(name) == name[Len(name)] = \h2F
Has_Dot(name) == \E i \in 1..Len(name) : name[i] = \h2E
\* the last '.' of the name is not its first character
Has_Extension(name) ==
    /\ Has_Dot(name)
    /\ Max({i \in 1..Len(name) : name[i] = \h2E}) > 1

\* the extension key at index k of the table (k in 0..18), and the whole table with
\* the 20th key ".sh"
Extension_Key(k) == App_Vec_Init[k + 1]
All_Keys == {App_Vec_Init[k] : k \in 1..20}

\* C5: when the last three characters of the first entry's name match no extension
\* key, the name has an extension and does not end in '/', the POSIX segment launches
\* the entry with "xdg-open " and the Windows segment with start /b "".
C5_Default_Launcher ==
    (/\ Script_Composed
     /\ Entry_Ext(zip_file) \notin All_Keys
     /\ Has_Extension(Entry_Name(zip_file))
     /\ ~Ends_In_Slash(Entry_Name(zip_file)))
    => /\ Launches(Posix_Segment(Script_Vec), TXT_XDG_OPEN, Entry_Name(zip_file))
       /\ Launches(Windows_Segment(Script_Vec), TXT_START_B, Entry_Name(zip_file))

\* the launcher the table of the specification gives for key index k
Launcher_Of_Key(k, name, script) ==
    LET posix == Posix_Segment(script)
        windows == Windows_Segment(script)
    IN  CASE k <= 14 ->
                /\ Contains(posix, TXT_VLC \o Quoted(name) \o TXT_DEV_NULL)
                /\ Launches(windows, TXT_START_B, name)
          [] k = 15 ->
                /\ Launches(posix, TXT_EVINCE, name)
                /\ Launches(windows, TXT_START_B, name)
          [] k = 16 ->
                /\ Launches(posix, TXT_PYTHON3, name)
                /\ Launches(windows, TXT_PYTHON3, name)
          [] k = 17 ->
                /\ Launches(posix, TXT_PWSH, name)
                /\ Launches(windows, TXT_POWERSHELL, TXT_DOT_BACKSLASH \o name)
          [] k = 18 ->
                /\ Contains(posix, TXT_CHMOD \o name \o TXT_DOT_SLASH \o Quoted(name))
                /\ Launches(windows, TXT_START_B, name)

C7_Folder_Launcher ==
    (Has_First_Entry(zip_file) /\ Ends_In_Slash(Entry_Name(zip_file))) =>
        /\ ~prompted
        /\ Script_Composed =>
              /\ Launches(Posix_Segment(Script_Vec), TXT_XDG_OPEN, Entry_Name(zip_file))
              /\ Launches(Windows_Segment(Script_Vec), TXT_INVOKE_ITEM, Entry_Name(zip_file))

\* a script was composed for a name that ends in '/' and has a '.' after its first
\* character
C7_Witness ==
    /\ Script_Composed
    /\ Ends_In_Slash(Entry_Name(zip_file))
    /\ Has_Extension(Entry_Name(zip_file))

\* C8: when the first entry's name has no '.' and does not end in '/', the POSIX
\* segment gets "chmod +x " name ";./" name and the Windows segment start /b "" name,
\* whatever the last three characters of the name are.
C8_No_Extension_Executable ==
    (/\ Script_Composed
     /\ ~Has_Dot(Entry_Name(zip_file))
     /\ ~Ends_In_Slash(Entry_Name(zip_file)))
    => /\ Contains(Posix_Segment(Script_Vec),
                   TXT_CHMOD \o Entry_Name(zip_file) \o TXT_DOT_SLASH
                       \o Quoted(Entry_Name(zip_file)))
       /\ Launches(Windows_Segment(Script_Vec), TXT_START_B, Entry_Name(zip_file))

\* a script was composed for a name without '.' whose last three characters are the
\* key "pdf"
C8_Witness ==
    /\ Script_Composed
    /\ ~Has_Dot(Entry_Name(zip_file))
    /\ ~Ends_In_Slash(Entry_Name(zip_file))
    /\ Entry_Ext(zip_file) = Extension_Key(15)

----------------------------------------------------------------------------
(* C9: the size check of Open_Files                                        *)

\* Open_Files has opened both files, added up their sizes (line 118) and applied
\* its size check
Size_Check_Applied == combined_file_size # 0

\* the run was ended by the size check
Size_Check_Rejected ==
    /\ pc = "exit"
    /\ diag \in {"File Size Error: Invalid PNG image. File too small",
                 "File Size Error: Invalid ZIP file. File too small",
                 "File Size Error: The combined file size of your PNG image and ZIP file exceeds maximum limit"}

\* C9: the size check rejects exactly when the image file is smaller than 68 bytes,
\* or the ZIP file is smaller than 40 bytes, or the two sizes add up to more than
\* 209,715,200; so an image of 68 bytes with a ZIP of 40 bytes passes.
C9_Size_Check ==
    Size_Check_Applied =>
        (Size_Check_Rejected <=>
            \/ Len(image_file) < 68
            \/ Len(zip_file) < 40
            \/ Len(image_file) + Len(zip_file) > 209715200)

----------------------------------------------------------------------------
(* C10: the colour type and dimension check of Check_Image_File            *)

\* Check_Image_File has read the image and reached its colour/dimension check
Dims_Check_Applied ==
    /\ Image_Vec # <<>>
    /\ diag \notin {"Image File Error: File does not appear to be a valid PNG image",
                    "Image File Error: The IHDR chunk of this image contains a character that will break the Linux extraction script"}

Dims_Check_Passed ==
    diag \notin {"Image File Error: Color type of PNG image is not supported",
                 "Image File Error: Dimensions of PNG image are not within the supported range"}

\* width and height as IHDR stores them: 32-bit big-endian at indices 16 and 20
True_Width(f) == Ref_BE32(f, 16)
True_Height(f) == Ref_BE32(f, 20)

\* C10: an image of colour type 2 or 6 passes the colour/dimension check iff its width
\* and height both lie in 68..899, one of colour type 3 iff both lie in 68..4096, and
\* no other colour type passes; width and height are the 32-bit values of IHDR.
C10_Dims_Check ==
    Dims_Check_Applied =>
        (Dims_Check_Passed <=>
            LET ct == At(image_file, 25)
                w == True_Width(image_file)
                h == True_Height(image_file)
            IN  \/ ct \in {2, 6} /\ w \in 68..899 /\ h \in 68..899
                \/ ct = 3 /\ w \in 68..4096 /\ h \in 68..4096)

----------------------------------------------------------------------------
(* C11: what Erase_Image_Chunks keeps                                      *)

\* the pruner has run and handed the buffer to the ZIP check
Pruned == pc = "Check_Zip_File"

\* C11: for every well-formed input PNG that passes validation, the pruned
\* buffer is exactly the 33-byte signature and IHDR, then the PLTE chunk (for
\* colour type 3) and every IDAT chunk of the input, whole and in order, then
\* the 12-byte IEND chunk - also when the bytes "IDAT" occur inside the data of
\* a chunk.
C11_Pruned_Exact ==
    (Pruned /\ Png_Well_Formed(image_file))
        => Image_Vec = Slice(image_file, 0, 33) \o Kept_Chunk_Bytes(image_file) \o IEND_CHUNK

----------------------------------------------------------------------------
(* C12: no forbidden byte where the shell reads the file                   *)

Is_Bad_Char(b) == \E i \in 1..7 : b = BAD_CHAR[i]

\* the ten '.' bytes of the padding step stand before the CRC field of the script chunk
Script_Padded ==
    /\ Script_Composed
    /\ Len(Script_Vec) >= 14
    /\ Slice(Script_Vec, Len(Script_Vec) - 14, Len(Script_Vec) - 4) = INCREASE_LENGTH_STRING

\* C12: for every successful build, no byte of the output at indices 19..32 and not
\* the byte at index 36 (offset 3 of the length field of the script chunk) is one of
\* 22 27 28 29 3B 3E 60 - for every script size up to the limit of 750 bytes, also
\* after the single padding step of ten '.' bytes.
C12_No_Forbidden_Byte ==
    Built => /\ \A i \in 19..32 : ~Is_Bad_Char(At(out_file, i))
             /\ ~Is_Bad_Char(At(out_file, 36))

\* a build whose script was padded: its length before the padding was 0x260 + 12
C12_Witness == Built /\ Script_Padded /\ script_size = 630

----------------------------------------------------------------------------
(* C13: the size of the output                                             *)

\* the run ended with a failure status
Failed == pc = "exit" /\ status # 0

----------------------------------------------------------------------------
(* C14: the size of the script chunk                                       *)

SCRIPT_SIZE_ERROR == "File Size Error: Extraction script exceeds size limit"

\* C14: on every successful build the complete script chunk of the output, padding
\* included, has at most 750 bytes; whenever the composed script is larger, whatever
\* the first name and the argument lines, the build fails with the script-size
\* diagnostic.
C14_Script_Size_Limit ==
    /\ Built => /\ Len(Script_Vec) <= 750
                /\ Slice(out_file, 33, 33 + Len(Script_Vec)) = Script_Vec
                /\ Ref_BE32(out_file, 33) = Len(Script_Vec) - 12
    /\ (Script_Composed /\ Len(Script_Vec) > 750) => (Failed /\ diag = SCRIPT_SIZE_ERROR)

\* a script of 751 bytes, made by the argument line typed at the Linux prompt
C14_Witness ==
    /\ Failed
    /\ diag = SCRIPT_SIZE_ERROR
    /\ prompted
    /\ Len(Script_Vec) = 751

----------------------------------------------------------------------------
(* C15: what Check_Zip_File accepts                                        *)

NOT_A_ZIP_ERROR == "ZIP File Error: File does not appear to be a valid ZIP archive"
NAME_TOO_SHORT_ERROR == "ZIP File Error: Name length of first file within ZIP archive is too short"

\* Check_Zip_File has run: it is the only writer of Zip_Vec
Zip_Checked == Zip_Vec # <<>>

\* the run ended in Check_Zip_File
Zip_Rejected == Failed /\ diag \in {NOT_A_ZIP_ERROR, NAME_TOO_SHORT_ERROR}

\* C15: Check_Zip_File lets the build continue if and only if bytes 8..11 of the
\* wrapped buffer are 50 4B 03 04 and its byte at index 34 is at least 4; otherwise
\* the build fails, with the not-a-ZIP diagnostic when the signature is wrong and
\* with the name-too-short diagnostic otherwise.
C15_Zip_Check ==
    Zip_Checked =>
        LET signature_ok == Slice(Zip_Vec, 8, 12) = <<\h50, \h4B, \h03, \h04>>
            name_ok == At(Zip_Vec, 34) >= 4
        IN  /\ Slice(Zip_Vec, 8, Len(Zip_Vec) - 4) = zip_file
            /\ (signature_ok /\ name_ok) <=> ~Zip_Rejected
            /\ ~signature_ok => (Failed /\ diag = NOT_A_ZIP_ERROR)
            /\ (signature_ok /\ ~name_ok) => (Failed /\ diag = NAME_TOO_SHORT_ERROR)

\* an archive whose first name has three bytes is rejected
C15_Witness ==
    /\ Zip_Checked
    /\ At(Zip_Vec, 34) = 3
    /\ Failed
    /\ diag = NAME_TOO_SHORT_ERROR

----------------------------------------------------------------------------
(* C16: the exit status                                                    *)

\* C16: the process exits with status 0 only when a polyglot file was built and
\* written; every validation or input/output failure, a wrong number of arguments
\* included, ends the run with a non-zero status.  (The run of pdvzip --info, which
\* asks for no build, is left out.)
C16_Exit_Status ==
    (pc = "exit" /\ argv # <<INFO_ARG>>) => (status = 0 <=> out_file # <<>>)

----------------------------------------------------------------------------
(* C17: the order of the checks                                            *)

SIGNATURE_ERROR == "Image File Error: File does not appear to be a valid PNG image"
BAD_CHAR_ERROR == "Image File Error: The IHDR chunk of this image contains a character that will break the Linux extraction script"
COLOR_TYPE_ERROR == "Image File Error: Color type of PNG image is not supported"
DIMS_ERROR == "Image File Error: Dimensions of PNG image are not within the supported range"
IDAT_CRC_ERROR == "Image File Error: CRC value for first IDAT chunk is invalid"
PLTE_ERROR == "Image File Error: Required PLTE chunk not found for Indexed-color (PNG-8) image"
COMBINED_SIZE_ERROR == "File Size Error: The combined file size of your PNG image, ZIP file and Extraction Script, exceeds file size limit"

\* the place in the stated order of the check that writes diagnostic d; 0 for the
\* diagnostics of main and of the opening of the files
Check_Of(d) ==
    IF d \in {"File Size Error: Invalid PNG image. File too small",
              "File Size Error: Invalid ZIP file. File too small",
              "File Size Error: The combined file size of your PNG image and ZIP file exceeds maximum limit"}
    THEN 1
    ELSE IF d = SIGNATURE_ERROR THEN 2
    ELSE IF d = BAD_CHAR_ERROR THEN 3
    ELSE IF d = COLOR_TYPE_ERROR THEN 4
    ELSE IF d = DIMS_ERROR THEN 5
    ELSE IF d = IDAT_CRC_ERROR THEN 6
    ELSE IF d = PLTE_ERROR THEN 7
    ELSE IF d \in {NOT_A_ZIP_ERROR, NAME_TOO_SHORT_ERROR} THEN 8
    ELSE IF d \in {SCRIPT_SIZE_ERROR, COMBINED_SIZE_ERROR} THEN 9
    ELSE 0

\* whether check k, taken by itself, fails on the two input files (for check 9: on
\* the script as composed)
Check_Fails(k) ==
    CASE k = 1 -> ~File_Size_Check(Len(image_file), Len(zip_file))
      [] k = 2 -> ~Valid_Png_Signatures(image_file)
      [] k = 3 -> \E i \in 19..32 : Is_Bad_Char(At(image_file, i))
      [] k = 4 -> ~VALID_COLOR_TYPE(image_file)
      [] k = 5 -> ~VALID_IMAGE_DIMS(image_file)
      [] k = 6 -> ~First_IDAT_Crc_Valid(image_file)
      [] k = 7 -> /\ At(image_file, 25) = 3
                  /\ ~(First_IDAT_Index(image_file) > PLTE_CHUNK_INDEX(image_file))
      [] k = 8 -> \/ Slice(zip_file, 0, 4) # ZIP_SIG
                  \/ At(zip_file, 26) < 4
      [] k = 9 -> \/ Len(Script_Vec) > MAX_SCRIPT_SIZE
                  \/ combined_file_size > MAX_FILE_SIZE

\* checks 1..n pass, looked at in their order
RECURSIVE Checks_Pass(_)
Checks_Pass(n) == IF n = 0 THEN TRUE ELSE Checks_Pass(n - 1) /\ ~Check_Fails(n)

\* C17: the checks run in the order size check, PNG signatures, forbidden bytes at
\* 19..32, colour type, dimensions, CRC of the first IDAT chunk, PLTE presence, ZIP
\* signature and name length, script and combined size: a failed run carries the
\* diagnostic of the first check that fails, and no later step has run (no pruning,
\* no ZIP read, no prompt, no script, no assembly, no output); a run that gets to
\* the assembly has passed them all.
C17_Check_Order ==
    /\ (Failed /\ Check_Of(diag) >= 1)
          => /\ Checks_Pass(Check_Of(diag) - 1)
             /\ Check_Fails(Check_Of(diag))
             /\ out_file = <<>>
             /\ Check_Of(diag) <= 1 => Image_Vec = <<>>
             /\ Check_Of(diag) <= 7 => (Image_Vec \in {<<>>, image_file} /\ Zip_Vec = <<>>)
             /\ Check_Of(diag) <= 8 => (Script_Vec = <<>> /\ ~prompted)
             /\ Len(Image_Vec) <= Len(image_file)
    /\ (Script_Composed /\ ~Failed) => Checks_Pass(9)

\* the image whose byte at index 22 is 0x3B and whose height is out of range is
\* rejected for the forbidden byte
C17_Witness ==
    /\ Failed
    /\ At(image_file, 22) = \h3B
    /\ ~VALID_IMAGE_DIMS(image_file)
    /\ diag = BAD_CHAR_ERROR

----------------------------------------------------------------------------
(* C18: the inserts of the script strings                                  *)

\* the values of app_index that select the eight launcher classes: VIDEO_AUDIO, PDF,
\* PYTHON, POWERSHELL, EXECUTABLE, BASH, FOLDER, and one value that takes the default
\* arm of the switch
Launcher_Classes == VIDEO_AUDIO..(FOLDER_INVOKE_ITEM + 1)

\* the positions in the template at which a string may be spliced
Template_Positions == {119, 120, 121, 239, 241, 242, 264}

\* the inserts of the while loop for class sel, in the order of the loop:
\* [pos |-> Sequence_Vec[insert_index], str |-> App_Vec[Sequence_Vec[app_index]]]
Insert_Pairs(sel, name, a_linux, a_windows) ==
    LET sw == Switch_Case(sel)
        app_vec == App_Vec_Final(name, sel, a_linux, a_windows)
    IN  [k \in 1..(Sequence_Limit(sw) - sw.insert_index) |->
            [pos |-> sw.Sequence_Vec[sw.insert_index + k],
             str |-> app_vec[sw.Sequence_Vec[sw.app_index + k] + 1]]]

\* the text that stands before template byte p once the first k inserts are done: a
\* later insert at the same position lands before an earlier one
RECURSIVE Inserted_At(_, _, _)
Inserted_At(pairs, p, k) ==
    IF k = 0 THEN <<>>
    ELSE (IF pairs[k].pos = p THEN pairs[k].str ELSE <<>>) \o Inserted_At(pairs, p, k - 1)

\* the template with every string spliced at its position in the template
Spliced_Template(pairs) ==
    LET At_Position(p) == Inserted_At(pairs, p, Len(pairs))
        Template(from, to) == Slice(Script_Template, from, to)
    IN  Template(0, 119) \o At_Position(119)
            \o Template(119, 120) \o At_Position(120)
            \o Template(120, 121) \o At_Position(121)
            \o Template(121, 239) \o At_Position(239)
            \o Template(239, 241) \o At_Position(241)
            \o Template(241, 242) \o At_Position(242)
            \o Template(242, 264) \o At_Position(264)
            \o Template(264, Len(Script_Template))

\* what C18 says of class sel, for the first name and the argument lines of this run
Class_Spliced(sel, name, a_linux, a_windows) ==
    LET pairs == Insert_Pairs(sel, name, a_linux, a_windows)
        sw == Switch_Case(sel)
    IN  /\ Len(pairs) >= 4
        /\ \A k \in 1..Len(pairs) : pairs[k].pos \in Template_Positions
        /\ \A k \in 1..(Len(pairs) - 1) : pairs[k].pos >= pairs[k + 1].pos
        /\ Insert_Loop(Script_Template, sw.Sequence_Vec,
                       App_Vec_Final(name, sel, a_linux, a_windows),
                       sw.insert_index, sw.app_index, Sequence_Limit(sw))
             = Spliced_Template(pairs)

\* Script_Vec without its length field, its padding and its CRC field
Script_Body ==
    LET unpadded == IF Script_Padded THEN Len(Script_Vec) - 14 ELSE Len(Script_Vec) - 4
    IN  Slice(Script_Vec, 4, unpadded)

\* C18: for every launcher class the insert positions are non-increasing, so that the
\* composed script is the 274-byte template with each string spliced at its position
\* in the template (119, 120, 121, 239, 241, 242 or 264): every byte of the template
\* is kept, in order, and nothing is inserted before index 119.
C18_Spliced_At_Template_Positions ==
    Script_Composed =>
        LET name == First_Zip_Name(Zip_Vec)
            expected == Spliced_Template(Insert_Pairs(Select_App_Index(Zip_Vec), name,
                                                      args_linux, args_windows))
        IN  /\ \A sel \in Launcher_Classes : Class_Spliced(sel, name, args_linux, args_windows)
            /\ Script_Body = Slice(expected, 4, Len(expected) - 4)
            /\ Slice(Script_Vec, 4, 119) = Slice(Script_Template, 4, 119)

\* a shell script with an argument line: four strings inserted at index 119
C18_Witness ==
    /\ Script_Composed
    /\ Select_App_Index(Zip_Vec) = BASH_XDG_OPEN
    /\ Len(args_linux) > 1
    /\ Len(args_windows) > 1

----------------------------------------------------------------------------
(* C19: the comment length of the end record                               *)

\* the input archive ends with its end record and the comment that record announces
Ends_With_Comment(f) ==
    /\ Zip_End_Index(f) >= 0
    /\ Zip_End_Index(f) + 22 + Ref_LE16(f, Zip_End_Index(f) + 20) = Len(f)

\* index in the finished image vector of the end record of the archive
Out_End_Index == Len(Image_Vec) - 16 - Len(zip_file) + Zip_End_Index(zip_file)

\* C19: for every comment length 0..65535 of the input archive, once the offset
\* fixer has run, the comment-length field of the end record (16 bits, little-endian,
\* at +20..+21) holds that length plus 16, so that the comment it announces ends with
\* the last byte of the image vector, which is the last byte of the output.
C19_Comment_Length ==
    (Offsets_Fixed /\ Ends_With_Comment(zip_file))
        => /\ Ref_LE16(Image_Vec, Out_End_Index + 20)
                  = Ref_LE16(zip_file, Zip_End_Index(zip_file) + 20) + 16
           /\ Out_End_Index + 22 + Ref_LE16(Image_Vec, Out_End_Index + 20) = Len(Image_Vec)

----------------------------------------------------------------------------
(* C20: the two CRCs are taken over the finished bytes                     *)

\* the 4 bytes after the len bytes at type_index of f are the CRC-32 of those bytes
Crc_Stored_After(f, type_index, len) ==
    /\ 0 <= type_index /\ 0 <= len /\ type_index + len + 4 <= Len(f)
    /\ Slice(f, type_index + len, type_index + len + 4)
           = Png_Crc32(Slice(f, type_index, type_index + len))

\* the script step has passed the size limits and written the CRC of the iCCP chunk
Script_Complete == pc \in {"Combine_Vectors", "Write_Out_Polyglot_File"} \/ Built

\* IDAT_ZIP_INDEX as Combine_Vectors computed it from the size of the pruned image
\* (Image_Vec without the script and the ZIP chunk) and the size of the script
Idat_Zip_Index_Used ==
    Idat_Zip_Index(Len(Image_Vec) - script_size - zip_size, script_size)

\* C20: the CRC stored in the last 4 bytes of the script vector is the CRC of the
\* (script size - 8) bytes from offset 4 as they stand after the last insertion,
\* padding and length rewrite, and the script is spliced into the image unchanged;
\* the CRC stored 16 bytes before the end of the image vector is the CRC of the
\* (zip size - 8) bytes from IDAT_ZIP_INDEX as they stand after the offset fixer has
\* written, and the file written holds the image vector unchanged.
C20_Crc_Over_Finished_Bytes ==
    /\ Script_Complete
          => /\ Len(Script_Vec) = script_size
             /\ Crc_Stored_After(Script_Vec, ICCP_CHUNK_INDEX, script_size - 8)
    /\ (Offsets_Fixed \/ Built)
          => /\ Crc_Stored_After(Image_Vec, Idat_Zip_Index_Used, zip_size - 8)
             /\ Idat_Zip_Index_Used + zip_size - 8 = Len(Image_Vec) - 16
             /\ Slice(Image_Vec, FIRST_IDAT_INDEX, FIRST_IDAT_INDEX + script_size)
                    = Script_Vec
    /\ Built => out_file = Image_Vec

\* a run of a padded script in which the offset fixer has changed bytes of the
\* archive and the CRC of its chunk has been written
C20_Witness ==
    /\ Offsets_Fixed
    /\ Script_Padded
    /\ Slice(Image_Vec, Idat_Zip_Index_Used + 4, Idat_Zip_Index_Used + 4 + Len(zip_file))
           # zip_file

----------------------------------------------------------------------------
(* C21: the byte order of the fields written                               *)

\* the PNG fields of the ZIP chunk and of the script, read most significant byte first
Png_Fields_Big_Endian ==
    /\ Zip_Checked
          => Ref_BE32(Zip_Vec, 0) = Len(zip_file)
    /\ Script_Complete
          => Ref_BE32(Script_Vec, 0) = script_size - 12
    /\ pc = "Combine_Vectors"
          => Slice(Script_Vec, script_size - 4, script_size)
                 = Png_Crc32(Slice(Script_Vec, ICCP_CHUNK_INDEX, script_size - 4))
    /\ Offsets_Fixed
          => Slice(Image_Vec, Len(Image_Vec) - 16, Len(Image_Vec) - 12)
                 = Png_Crc32(Slice(Image_Vec, Idat_Zip_Index_Used, Len(Image_Vec) - 16))

\* the ZIP fields of the fixed archive, read least significant byte first: the offsets
\* of the central directory and of the end record, and the comment length, which
\* holds the 16 low bits of the sum the fixer formed
Zip_Fields_Little_Endian ==
    (Offsets_Fixed /\ Signatures_At_Records(zip_file) /\ Ends_With_Comment(zip_file))
        => /\ Offsets_Consistent
           /\ Ref_LE16(Image_Vec, Out_End_Index + 20)
                  = (Ref_LE16(zip_file, Zip_End_Index(zip_file) + 20) + 16) % 65536

\* C21: the four PNG fields (length of the ZIP chunk, length and CRC of the iCCP
\* chunk, CRC of the last IDAT chunk) are written with the flag big_endian true, the
\* three kinds of ZIP field (local-header offsets, offset of the central directory,
\* comment length) with it false, and the flag the offset fixer cleared is true again
\* when the CRC of the last IDAT chunk is written: the flag is true in every state
\* between two steps and each field reads back in its own byte order.
C21_Byte_Order ==
    /\ big_endian = TRUE
    /\ Png_Fields_Big_Endian
    /\ Zip_Fields_Little_Endian

\* the fixer has written the offsets of two central-directory entries and the CRC of
\* the chunk has been written after it
C21_Witness ==
    /\ Offsets_Fixed
    /\ Signatures_At_Records(zip_file)
    /\ Ends_With_Comment(zip_file)
    /\ Len(Central_Positions(zip_file)) = 2
    /\ Ref_BE32(Image_Vec, Len(Image_Vec) - 16) # Ref_LE32(Image_Vec, Len(Image_Vec) - 16)

----------------------------------------------------------------------------
(* C22: the argument prompts and the place of the argument strings         *)

Prompted_Classes == {PYTHON, POWERSHELL, EXECUTABLE, BASH_XDG_OPEN}

\* an argument string as inserted: one space, then a line the user may have typed
Space_Prefixed(args) == \E line \in Arg_Lines : args = <<\h20>> \o line

\* index in Script_Vec of template byte p once the strings of pairs are spliced in,
\* and so of the first byte after whatever was spliced at p
After_Position(pairs, p) ==
    LET before == {q \in Template_Positions : q <= p}
        Total[qs \in SUBSET before] ==
            IF qs = {} THEN 0
            ELSE LET q == CHOOSE x \in qs : TRUE
                 IN  Len(Inserted_At(pairs, q, Len(pairs))) + Total[qs \ {q}]
    IN  p + Total[before]

\* Script_Vec holds, at the place of template position p: the closing quote of the
\* first name (template byte p - 1), then args, then the bytes of the template from p
Args_After_Quoted_Name(pairs, p, args) ==
    LET from == After_Position(pairs, p) - Len(args) - 1
    IN  /\ from >= 0
        /\ from + 1 + Len(args) + 5 <= Len(Script_Vec)
        /\ Slice(Script_Vec, from, from + 1 + Len(args) + 5)
               = <<\h22>> \o args \o Slice(Script_Template, p, p + 5)

\* Script_Vec holds name directly before the closing quote that precedes what was
\* spliced at template position p
Name_Before_Quote(pairs, p, name, args) ==
    LET quote == After_Position(pairs, p) - Len(args) - 1
    IN  /\ quote - Len(name) - 1 >= 0
        /\ Slice(Script_Vec, quote - Len(name) - 1, quote) = <<\h22>> \o name

\* C22: the two argument lines are asked for exactly when the class selected is
\* PYTHON, POWERSHELL, EXECUTABLE or BASH; then each line, with exactly one space
\* before it, stands directly after the quoted first name of its segment (template
\* position 121 for POSIX, 242 for Windows, where PowerShell's name carries its .\);
\* for every other class nothing is asked and no argument bytes are inserted: after
\* the quoted name stands the template, or for VIDEO_AUDIO the fixed " &> /dev/null"
\* of the POSIX segment.
C22_Argument_Prompt ==
    Script_Composed =>
        LET sel == Select_App_Index(Zip_Vec)
            name == First_Zip_Name(Zip_Vec)
            win_name == IF sel = POWERSHELL THEN <<\h2E, \h5C>> \o name ELSE name
            pairs == Insert_Pairs(sel, name, args_linux, args_windows)
            after_posix == IF prompted THEN args_linux
                           ELSE IF sel = VIDEO_AUDIO THEN TXT_DEV_NULL ELSE <<>>
        IN  /\ prompted <=> sel \in Prompted_Classes
            /\ prompted => Space_Prefixed(args_linux) /\ Space_Prefixed(args_windows)
            /\ ~prompted => args_linux = <<>> /\ args_windows = <<>>
            /\ Args_After_Quoted_Name(pairs, 121, after_posix)
            /\ Name_Before_Quote(pairs, 121, name, after_posix)
            /\ Args_After_Quoted_Name(pairs, 242, args_windows)
            /\ Name_Before_Quote(pairs, 242, win_name, args_windows)

\* a script for a file without extension, with an argument line typed for POSIX and
\* an empty one for Windows
C22_Witness ==
    /\ Script_Composed
    /\ Select_App_Index(Zip_Vec) = EXECUTABLE
    /\ prompted
    /\ Len(args_linux) > 1
    /\ Len(args_windows) = 1

----------------------------------------------------------------------------
(* C23: the palette of the pruned image                                    *)

\* the chunks of the input image, and the place among them of the first IDAT chunk
\* (one past the last chunk if there is none)
Image_Chunks == Png_Chunks(image_file, 8)
First_Idat_Chunk ==
    Min({k \in 1..Len(Image_Chunks) : Image_Chunks[k].type = IDAT_SIG}
            \cup {Len(Image_Chunks) + 1})

\* the PLTE chunks of the input image that stand before its first IDAT chunk
Plte_Before_Idat ==
    {k \in 1..(First_Idat_Chunk - 1) : Image_Chunks[k].type = PLTE_SIG}

\* the bytes of chunk k of the input image
Image_Chunk_Bytes(k) ==
    Slice(image_file, Image_Chunks[k].at, Image_Chunks[k].at + Image_Chunks[k].size)

\* the run went on after Erase_Image_Chunks
Went_On_Pruned == Pruned \/ Zip_Vec # <<>>

\* C23: an image of colour type 3 is pruned only if a PLTE chunk stands before its
\* first IDAT chunk, and then the whole PLTE chunk (its length + 12 bytes) follows
\* the 33 bytes of signature and IHDR in the pruned image; without such a chunk the
\* run ends in the pruner with the missing-PLTE diagnostic. Of an image of colour
\* type 2 or 6 the pruned image holds no PLTE chunk.
C23_Palette ==
    Png_Well_Formed(image_file) =>
        /\ (At(image_file, 25) = 3 /\ Pruned)
              => /\ Plte_Before_Idat # {}
                 /\ \E k \in Plte_Before_Idat :
                       Slice(Image_Vec, 33, 33 + Image_Chunks[k].size) = Image_Chunk_Bytes(k)
        /\ (At(image_file, 25) = 3 /\ Plte_Before_Idat = {})
              => /\ ~Went_On_Pruned
                 /\ (Failed /\ Check_Of(diag) >= 6) => diag = PLTE_ERROR
        /\ (At(image_file, 25) \in {2, 6} /\ Pruned)
              => \A k \in 1..Len(Png_Chunks(Image_Vec, 8)) :
                     Png_Chunks(Image_Vec, 8)[k].type # PLTE_SIG

----------------------------------------------------------------------------
(* Value_Updater as a function of its arguments                            *)

UpdaterLen == 6

\* two vectors whose bytes all differ, so that a byte written to the wrong index or
\* a byte left behind shows
Updater_Vecs ==
    { [k \in 1..UpdaterLen |-> 16 * k + k], [k \in 1..UpdaterLen |-> \hA0 + k] }

\* NEW_VALUE is a size_t; the shifts used are below 32, so only its low four bytes
\* reach the vector: the values are given by those four bytes, most significant
\* first (65536 + 772 and \hFFFEFDFC do not fit 16 bits, \h80000001 has the top bit)
Updater_Values ==
    { Word(0), Word(258), Word(65535), Word(65536 + 772), Word(16909060),
      <<\hFF, \hFE, \hFD, \hFC>>, <<\h80, 0, 0, 1>> }

\* the indices the loop touches all lie inside the vector
Updater_In_Range(vec, value_insert_index, bits, be) ==
    IF be THEN value_insert_index >= 0 /\ value_insert_index + bits \div 8 <= Len(vec)
    ELSE value_insert_index < Len(vec) /\ value_insert_index - bits \div 8 + 1 >= 0

Updater_Calls ==
    { c \in [vec : Updater_Vecs, value_insert_index : 0..(UpdaterLen - 1),
             NEW_VALUE : Updater_Values, bits : {16, 32}, big_endian : BOOLEAN,
             returned : {FALSE}, vec_after : {<<>>}] :
        Updater_In_Range(c.vec, c.value_insert_index, c.bits, c.big_endian) }

Init_Updater ==
    /\ updater_call \in Updater_Calls
    /\ pc = "Value_Updater"
    /\ argv = <<>>
    /\ image_file = <<>>
    /\ zip_file = <<>>
    /\ status = 0
    /\ diag = ""
    /\ Image_Vec = <<>>
    /\ Zip_Vec = <<>>
    /\ Script_Vec = <<>>
    /\ image_size = 0
    /\ zip_size = 0
    /\ script_size = 0
    /\ combined_file_size = 0
    /\ big_endian = TRUE
    /\ prompted = FALSE
    /\ args_linux = <<>>
    /\ args_windows = <<>>
    /\ out_file = <<>>

\* lines 753-765: one call, from entry to return
Value_Updater_Call ==
    /\ pc = "Value_Updater"
    /\ updater_call' =
          [updater_call EXCEPT
              !.returned = TRUE,
              !.vec_after = Value_Updater(updater_call.vec, updater_call.value_insert_index,
                                          updater_call.NEW_VALUE, updater_call.bits,
                                          updater_call.big_endian)]
    /\ pc' = "returned"
    /\ UNCHANGED <<argv, status, diag, image_file, zip_file, Image_Vec, Zip_Vec, Script_Vec,
                   image_size, zip_size, script_size, combined_file_size, big_endian,
                   prompted, args_linux, args_windows, out_file>>

Next_Updater == Value_Updater_Call

Spec_Updater == Init_Updater /\ [][Next_Updater]_vars

----------------------------------------------------------------------------
(* C24: the bytes Value_Updater writes                                     *)

Updater_Returned == pc = "returned" /\ updater_call # <<>> /\ updater_call.returned

\* byte k (0 the most significant) of v mod 2^w, v given by its low four bytes
Value_Byte(v, w, k) == v[4 - w \div 8 + k + 1]

\* v mod 2^w as a number, for the values that fit a signed 32-bit integer
Value_Mod(v, w) ==
    IF w = 16 THEN 256 * v[3] + v[4]
    ELSE 16777216 * v[1] + 65536 * v[2] + 256 * v[3] + v[4]

\* index of the k-th byte written (k = 0 first)
Field_Index(i, k, be) == IF be THEN i + k ELSE i - k

\* the field of w bits at index i read most-significant first in the direction of be
RECURSIVE Field_Read(_, _, _, _)
Field_Read(f, i, n, be) ==
    IF n = 0 THEN 0
    ELSE At(f, Field_Index(i, n - 1, be))
         + 256 * Field_Read(f, i, n - 1, be)

\* C24: a returned call Value_Updater(vec, i, v, w, big_endian) with w in {16, 32}
\* has written the w/8 bytes of v mod 2^w most-significant first, at indices
\* i, i+1, ... when big_endian is true and i, i-1, ... when it is false; every
\* other byte of vec and its length are as before; reading the field back in the
\* same byte order yields v mod 2^w.
C24_Value_Updater ==
    Updater_Returned =>
        LET c == updater_call
            i == c.value_insert_index
            n == c.bits \div 8
            written == { Field_Index(i, k, c.big_endian) : k \in 0..(n - 1) }
        IN  /\ Len(c.vec_after) = Len(c.vec)
            /\ \A k \in 0..(n - 1) :
                  At(c.vec_after, Field_Index(i, k, c.big_endian))
                      = Value_Byte(c.NEW_VALUE, c.bits, k)
            /\ \A j \in 0..(Len(c.vec) - 1) :
                  j \notin written => At(c.vec_after, j) = At(c.vec, j)
            /\ (c.bits = 16 \/ c.NEW_VALUE[1] < 128)
                  => Field_Read(c.vec_after, i, n, c.big_endian)
                        = Value_Mod(c.NEW_VALUE, c.bits)

\* a 16-bit write, least significant byte at the lower index, of a value that does
\* not fit 16 bits
C24_Witness ==
    /\ Updater_Returned
    /\ updater_call.bits = 16
    /\ ~updater_call.big_endian
    /\ updater_call.NEW_VALUE = Word(65536 + 772)
    /\ updater_call.value_insert_index = 3
    /\ updater_call.vec_after # updater_call.vec

============================================================================
